---- MODULE Spec2Model ----
(***************************************************************************)
(* Model of the gim back end: the relational schema created by             *)
(* init_database (tables, keys, cascades, the capacity trigger and the     *)
(* stored function atualizar_plano_aluno), the query layer of queries.py   *)
(* and the request handlers of routes/api.py.                              *)
(*                                                                         *)
(* Values.  Text columns are strings, ids and dates are integers (a date   *)
(* is a year number).  A value that may be absent (a Python None, an SQL   *)
(* NULL) is <<>> when absent and <<v>> when present.  A price or a         *)
(* measurement sent by a client is an integer count of thousandths; a      *)
(* NUMERIC(n,2) column holds an integer count of hundredths.               *)
(***************************************************************************)
EXTENDS Integers, Sequences, FiniteSets, TLC

VARIABLES
    db,      \* the committed contents of the eight tables
    seq,     \* the SERIAL sequences of plano, aluno and turma (last value given)
    hoje,    \* CURRENT_DATE
    last,    \* the last request served and the response it got
    tx,      \* the enrol requests in flight, one per worker, each on its own connection
    batch,   \* the group of concurrent enrol requests launched last
    abertas  \* how many connections requests have acquired and not closed

vars == <<db, seq, hoje, last, tx, batch, abertas>>

----------------------------------------------------------------------------
(* Optional values *)

None == <<>>

Some(v) == <<v>>

Val(o) == o[1]

\* Python truthiness of an optional integer: None and 0 are falsy.
Truthy(o) == o # None /\ Val(o) # 0

----------------------------------------------------------------------------
(* Bounds of the model *)

\* Each SERIAL sequence hands out at most this many values.
MaxSerial == 1

\* CURRENT_DATE advances at most this many times.
MaxTicks == 1

\* Number of workers that can serve enrol requests concurrently.
NumWorkers == 2

\* Number of students in a populated start.
NumAlunos == 2

\* Requests are served while fewer connections than this are open.
MaxAbertas == 3

----------------------------------------------------------------------------
(* Program constants *)

\* CHECK (AGE(current_date, data_nascimento) >= INTERVAL '18 years')
IdadeMinima == 18

\* limit: int = 100, the default page size of the listings
LimitePadrao == 100

----------------------------------------------------------------------------
(* Conversions between client values and column values *)

\* A client number (thousandths) stored in a NUMERIC(n,2) column: rounded
\* half away from zero to hundredths.
ToNumeric2(x) == (x + 5) \div 10

\* float(row[i]) of a NUMERIC(n,2) column, back in thousandths.
FromNumeric2(c) == c * 10

----------------------------------------------------------------------------
(* Functions as tables *)

Put(f, k, v) == [x \in DOMAIN f \cup {k} |-> IF x = k THEN v ELSE f[x]]

Drop(f, K) == [x \in DOMAIN f \ K |-> f[x]]

EmptyTable == [x \in {} |-> 0]

\* The comparison < where the stored function has <=.
SqlLT(a, b) == IF a = <<>> \/ b = <<>> THEN <<>> ELSE <<a[1] < b[1]>>

\* SQL three-valued comparison of two optional numbers; NULL is None.
SqlLE(a, b) == IF a = None \/ b = None THEN None ELSE Some(Val(a) <= Val(b))

SqlGE(a, b) == IF a = None \/ b = None THEN None ELSE Some(Val(a) >= Val(b))

\* A PL/pgSQL IF takes its branch only when the condition is true (not NULL).
SqlTrue(c) == c = Some(TRUE)

----------------------------------------------------------------------------
(* The schema: init_database drops and creates the tables, all empty *)

EmptyDatabase ==
    [ plano                 |-> EmptyTable,
      aluno                 |-> EmptyTable,
      contato_aluno         |-> EmptyTable,
      bioimpedancia         |-> EmptyTable,
      instrutor             |-> EmptyTable,
      contato_instrutor     |-> EmptyTable,
      turma                 |-> EmptyTable,
      turma_instrutor_aluno |-> {} ]

\* Result of one SQL statement on the database d a transaction sees.
StmtOk(d, rows) == [error |-> FALSE, db |-> d, rows |-> rows]

StmtError(d) == [error |-> TRUE, db |-> d, rows |-> <<>>]

\* A cascade from students on a schema where bioimpedancia.matricula has no
\* ON DELETE CASCADE and is not enforced: the measurements stay.
CascadeAlunosSemBio(d, ms) ==
    [d EXCEPT
       !.aluno = Drop(@, ms),
       !.contato_aluno = Drop(@, {t \in DOMAIN @ : @[t].matricula \in ms}),
       !.turma_instrutor_aluno = {e \in @ : e[2] \notin ms}]

\* ON DELETE CASCADE, from a set of students down to their dependents.
CascadeAlunos(d, ms) ==
    [d EXCEPT
       !.aluno = Drop(@, ms),
       !.contato_aluno = Drop(@, {t \in DOMAIN @ : @[t].matricula \in ms}),
       !.bioimpedancia = Drop(@, ms),
       !.turma_instrutor_aluno = {e \in @ : e[2] \notin ms}]

\* ON DELETE CASCADE, from a set of classes down to their enrolments.
CascadeTurmas(d, ts) ==
    [d EXCEPT
       !.turma = Drop(@, ts),
       !.turma_instrutor_aluno = {e \in @ : e[1] \notin ts}]

\* A cascade from instructors on a schema where turma.cref has no ON DELETE
\* CASCADE and is not enforced: the classes and their enrolments stay.
CascadeInstrutoresSemTurmas(d, cs) ==
    [d EXCEPT
       !.instrutor = Drop(@, cs),
       !.contato_instrutor = Drop(@, {t \in DOMAIN @ : @[t].cref \in cs})]

\* ON DELETE CASCADE, from a set of instructors down to contacts and classes.
CascadeInstrutores(d, cs) ==
    LET d1 == CascadeTurmas(d, {t \in DOMAIN d.turma : d.turma[t].cref \in cs})
    IN  [d1 EXCEPT
           !.instrutor = Drop(@, cs),
           !.contato_instrutor = Drop(@, {t \in DOMAIN @ : @[t].cref \in cs})]

----------------------------------------------------------------------------
(* SQL statements against the schema.  Each takes the database d that the  *)
(* transaction sees and yields the database after it, or an error that     *)
(* leaves d as it was (a failed statement changes nothing).                *)

\* INSERT INTO plano: the SERIAL default supplies id; no constraint can fail.
InsertPlano(d, id, nome_plano, preco, descricao) ==
    StmtOk([d EXCEPT !.plano = Put(@, id,
                [nome_plano |-> nome_plano,
                 preco      |-> ToNumeric2(preco),
                 descricao  |-> descricao])],
           <<id>>)

\* An UPDATE plano that sets descricao to NULL when set does not name it.
UpdatePlanoAnulaAusentes(d, id, set) ==
    IF id \notin DOMAIN d.plano THEN StmtOk(d, <<>>)
    ELSE LET old == d.plano[id]
             new == [nome_plano |-> IF "nome_plano" \in DOMAIN set
                                    THEN set.nome_plano ELSE old.nome_plano,
                     preco      |-> IF "preco" \in DOMAIN set
                                    THEN ToNumeric2(set.preco) ELSE old.preco,
                     descricao  |-> IF "descricao" \in DOMAIN set
                                    THEN <<set.descricao>> ELSE <<>>]
         IN  StmtOk([d EXCEPT !.plano[id] = new], <<>>)

\* UPDATE plano SET <the columns of set> WHERE codigo_plano = id
UpdatePlano(d, id, set) ==
    IF id \notin DOMAIN d.plano THEN StmtOk(d, <<>>)
    ELSE LET old == d.plano[id]
             new == [nome_plano |-> IF "nome_plano" \in DOMAIN set
                                    THEN set.nome_plano ELSE old.nome_plano,
                     preco      |-> IF "preco" \in DOMAIN set
                                    THEN ToNumeric2(set.preco) ELSE old.preco,
                     descricao  |-> IF "descricao" \in DOMAIN set
                                    THEN Some(set.descricao) ELSE old.descricao]
         IN  StmtOk([d EXCEPT !.plano[id] = new], <<>>)

\* A DELETE FROM plano on a schema whose aluno.codigo_plano has no ON DELETE
\* CASCADE and is not enforced: the plan row alone goes.
DeletePlanoSemCascata(d, id) == StmtOk([d EXCEPT !.plano = Drop(@, {id})], <<>>)

\* DELETE FROM plano WHERE codigo_plano = id; aluno.codigo_plano cascades.
DeletePlano(d, id) ==
    LET d1 == CascadeAlunos(d, {m \in DOMAIN d.aluno : d.aluno[m].codigo_plano = id})
    IN  StmtOk([d1 EXCEPT !.plano = Drop(@, {id})], <<>>)

\* INSERT INTO aluno: cpf UNIQUE, codigo_plano REFERENCES plano.
InsertAluno(d, id, cpf, nome, sexo, data_nascimento, data_matricula, codigo_plano) ==
    IF \/ \E m \in DOMAIN d.aluno : d.aluno[m].cpf = cpf
       \/ codigo_plano \notin DOMAIN d.plano
    THEN StmtError(d)
    ELSE StmtOk([d EXCEPT !.aluno = Put(@, id,
                    [cpf             |-> cpf,
                     nome            |-> nome,
                     sexo            |-> sexo,
                     data_nascimento |-> data_nascimento,
                     data_matricula  |-> data_matricula,
                     codigo_plano    |-> codigo_plano])],
                <<id>>)

\* An UPDATE aluno without its WHERE clause: every row takes the columns of set.
UpdateAlunoSemWhere(d, id, set) ==
    LET New(m) == [f \in DOMAIN d.aluno[m] |->
                      IF f \in DOMAIN set THEN set[f] ELSE d.aluno[m][f]]
    IN  IF \E m \in DOMAIN d.aluno : New(m).codigo_plano \notin DOMAIN d.plano
        THEN StmtError(d)
        ELSE StmtOk([d EXCEPT !.aluno = [m \in DOMAIN d.aluno |-> New(m)]], <<>>)

\* UPDATE aluno SET <the columns of set> WHERE matricula = id
UpdateAluno(d, id, set) ==
    IF id \notin DOMAIN d.aluno THEN StmtOk(d, <<>>)
    ELSE LET old == d.aluno[id]
             new == [f \in DOMAIN old |-> IF f \in DOMAIN set THEN set[f] ELSE old[f]]
         IN  IF \/ \E m \in DOMAIN d.aluno \ {id} : d.aluno[m].cpf = new.cpf
                \/ new.codigo_plano \notin DOMAIN d.plano
             THEN StmtError(d)
             ELSE StmtOk([d EXCEPT !.aluno[id] = new], <<>>)

\* DELETE FROM aluno WHERE matricula = id; contacts, bioimpedance, enrolments cascade.
DeleteAluno(d, id) == StmtOk(CascadeAlunos(d, {id} \cap DOMAIN d.aluno), <<>>)

\* INSERT INTO contato_aluno: telefone PRIMARY KEY, matricula REFERENCES aluno.
InsertContatoAluno(d, matricula, telefone, email) ==
    IF telefone \in DOMAIN d.contato_aluno \/ matricula \notin DOMAIN d.aluno
    THEN StmtError(d)
    ELSE StmtOk([d EXCEPT !.contato_aluno = Put(@, telefone,
                    [email |-> email, matricula |-> matricula])], <<>>)

\* An update of a student's contact that adds a row for the new telefone and
\* keeps the rows the student had.
UpdateContatoAlunoAcrescenta(d, m, set) ==
    IF m \notin DOMAIN d.aluno \/ "telefone" \notin DOMAIN set
       \/ set.telefone \in DOMAIN d.contato_aluno
    THEN StmtOk(d, <<>>)
    ELSE StmtOk([d EXCEPT !.contato_aluno = Put(@, set.telefone,
                    [email |-> None, matricula |-> m])], <<>>)

\* UPDATE contato_aluno SET <the columns of set> WHERE matricula = m.  The
\* rows it matches get the new telefone, which must stay a primary key.
UpdateContatoAluno(d, m, set) ==
    LET hit  == {t \in DOMAIN d.contato_aluno : d.contato_aluno[t].matricula = m}
        keep == Drop(d.contato_aluno, hit)
        NewKey(t) == IF "telefone" \in DOMAIN set THEN set.telefone ELSE t
        NewRow(t) == [email     |-> IF "email" \in DOMAIN set
                                    THEN Some(set.email) ELSE d.contato_aluno[t].email,
                      matricula |-> m]
    IN  IF hit = {} THEN StmtOk(d, <<>>)
        ELSE IF \/ \E t \in hit : NewKey(t) \in DOMAIN keep
                \/ \E t1, t2 \in hit : t1 # t2 /\ NewKey(t1) = NewKey(t2)
        THEN StmtError(d)
        ELSE StmtOk([d EXCEPT !.contato_aluno =
                        [k \in DOMAIN keep \cup {NewKey(t) : t \in hit} |->
                            IF k \in DOMAIN keep THEN keep[k]
                            ELSE NewRow(CHOOSE t \in hit : NewKey(t) = k)]], <<>>)

\* INSERT INTO bioimpedancia: matricula PRIMARY KEY REFERENCES aluno.
InsertBioimpedancia(d, matricula, peso, altura, tmb, percentual_gordura, quantidade_agua) ==
    IF matricula \in DOMAIN d.bioimpedancia \/ matricula \notin DOMAIN d.aluno
    THEN StmtError(d)
    ELSE StmtOk([d EXCEPT !.bioimpedancia = Put(@, matricula,
                    [peso               |-> ToNumeric2(peso),
                     altura             |-> ToNumeric2(altura),
                     tmb                |-> tmb,
                     percentual_gordura |-> ToNumeric2(percentual_gordura),
                     quantidade_agua    |-> ToNumeric2(quantidade_agua)])], <<>>)

\* UPDATE bioimpedancia SET <the columns of set> WHERE matricula = id
UpdateBioimpedancia(d, id, set) ==
    IF id \notin DOMAIN d.bioimpedancia THEN StmtOk(d, <<>>)
    ELSE LET old == d.bioimpedancia[id]
             new == [f \in DOMAIN old |->
                        IF f \notin DOMAIN set THEN old[f]
                        ELSE IF f = "tmb" THEN set[f] ELSE ToNumeric2(set[f])]
         IN  StmtOk([d EXCEPT !.bioimpedancia[id] = new], <<>>)

\* DELETE FROM bioimpedancia WHERE matricula = id
DeleteBioimpedancia(d, id) ==
    StmtOk([d EXCEPT !.bioimpedancia = Drop(@, {id})], <<>>)

\* The instrutor row constraint CHECK (AGE(current_date, data_nascimento) >= 18 years)
MaiorDeIdade(today, data_nascimento) == today - data_nascimento >= IdadeMinima

\* INSERT INTO instrutor: cref PRIMARY KEY, cpf UNIQUE, the age CHECK.
InsertInstrutor(d, today, cref, cpf, nome, data_nascimento, data_admissao, turno) ==
    IF \/ cref \in DOMAIN d.instrutor
       \/ \E c \in DOMAIN d.instrutor : d.instrutor[c].cpf = cpf
       \/ ~MaiorDeIdade(today, data_nascimento)
    THEN StmtError(d)
    ELSE StmtOk([d EXCEPT !.instrutor = Put(@, cref,
                    [cpf             |-> cpf,
                     nome            |-> nome,
                     data_nascimento |-> data_nascimento,
                     data_admissao   |-> data_admissao,
                     turno           |-> turno])], <<>>)

\* UPDATE instrutor SET <the columns of set> WHERE cref = id
UpdateInstrutor(d, today, id, set) ==
    IF id \notin DOMAIN d.instrutor THEN StmtOk(d, <<>>)
    ELSE LET old == d.instrutor[id]
             new == [f \in DOMAIN old |-> IF f \in DOMAIN set THEN set[f] ELSE old[f]]
         IN  IF \/ \E c \in DOMAIN d.instrutor \ {id} : d.instrutor[c].cpf = new.cpf
                \/ ~MaiorDeIdade(today, new.data_nascimento)
             THEN StmtError(d)
             ELSE StmtOk([d EXCEPT !.instrutor[id] = new], <<>>)

\* DELETE FROM instrutor WHERE cref = id; contacts and classes cascade.
DeleteInstrutor(d, id) ==
    StmtOk(CascadeInstrutores(d, {id} \cap DOMAIN d.instrutor), <<>>)

\* INSERT INTO contato_instrutor: telefone PRIMARY KEY, cref REFERENCES instrutor.
InsertContatoInstrutor(d, cref, telefone, email) ==
    IF telefone \in DOMAIN d.contato_instrutor \/ cref \notin DOMAIN d.instrutor
    THEN StmtError(d)
    ELSE StmtOk([d EXCEPT !.contato_instrutor = Put(@, telefone,
                    [email |-> email, cref |-> cref])], <<>>)

\* An UPDATE contato_instrutor on a table whose telefone is no key: the row
\* that held the new telefone is replaced.
UpdateContatoInstrutorSemPK(d, c, set) ==
    LET hit == {t \in DOMAIN d.contato_instrutor : d.contato_instrutor[t].cref = c}
    IN  IF hit = {} \/ "telefone" \notin DOMAIN set THEN StmtOk(d, <<>>)
        ELSE StmtOk([d EXCEPT !.contato_instrutor =
                        Put(Drop(@, hit), set.telefone, [email |-> None, cref |-> c])],
                    <<>>)

\* UPDATE contato_instrutor SET <the columns of set> WHERE cref = c
UpdateContatoInstrutor(d, c, set) ==
    LET hit  == {t \in DOMAIN d.contato_instrutor : d.contato_instrutor[t].cref = c}
        keep == Drop(d.contato_instrutor, hit)
        NewKey(t) == IF "telefone" \in DOMAIN set THEN set.telefone ELSE t
        NewRow(t) == [email |-> IF "email" \in DOMAIN set
                                THEN Some(set.email) ELSE d.contato_instrutor[t].email,
                      cref  |-> c]
    IN  IF hit = {} THEN StmtOk(d, <<>>)
        ELSE IF \/ \E t \in hit : NewKey(t) \in DOMAIN keep
                \/ \E t1, t2 \in hit : t1 # t2 /\ NewKey(t1) = NewKey(t2)
        THEN StmtError(d)
        ELSE StmtOk([d EXCEPT !.contato_instrutor =
                        [k \in DOMAIN keep \cup {NewKey(t) : t \in hit} |->
                            IF k \in DOMAIN keep THEN keep[k]
                            ELSE NewRow(CHOOSE t \in hit : NewKey(t) = k)]], <<>>)

\* INSERT INTO turma: CHECK (quantidade_vagas > 0), cref REFERENCES instrutor.
InsertTurma(d, id, nome_atividade, quantidade_vagas, turno, cref) ==
    IF quantidade_vagas <= 0 \/ cref \notin DOMAIN d.instrutor
    THEN StmtError(d)
    ELSE StmtOk([d EXCEPT !.turma = Put(@, id,
                    [nome_atividade   |-> nome_atividade,
                     quantidade_vagas |-> quantidade_vagas,
                     turno            |-> turno,
                     cref             |-> cref])], <<id>>)

\* UPDATE turma SET <the columns of set> WHERE id_turma = id
UpdateTurma(d, id, set) ==
    IF id \notin DOMAIN d.turma THEN StmtOk(d, <<>>)
    ELSE LET old == d.turma[id]
             new == [f \in DOMAIN old |-> IF f \in DOMAIN set THEN set[f] ELSE old[f]]
         IN  IF new.quantidade_vagas <= 0 \/ new.cref \notin DOMAIN d.instrutor
             THEN StmtError(d)
             ELSE StmtOk([d EXCEPT !.turma[id] = new], <<>>)

\* DELETE FROM turma WHERE id_turma = id; enrolments cascade.
DeleteTurma(d, id) == StmtOk(CascadeTurmas(d, {id} \cap DOMAIN d.turma), <<>>)

\* Number of enrolment rows of class id.
Matriculados(d, id) == Cardinality({e \in d.turma_instrutor_aluno : e[1] = id})

\* A trigger function that raises only when the enrolments exceed the capacity.
verificar_vagas_turma_excedidas(d, new_id_turma) ==
    /\ new_id_turma \in DOMAIN d.turma
    /\ Matriculados(d, new_id_turma) > d.turma[new_id_turma].quantidade_vagas

\* The trigger function verificar_vagas_turma, BEFORE INSERT FOR EACH ROW on
\* turma_instrutor_aluno: TRUE when it raises.  d is what the inserting
\* transaction sees.  A class that does not exist gives a NULL capacity, and
\* the comparison with NULL does not raise.
verificar_vagas_turma(d, new_id_turma) ==
    LET vagas_disponiveis   == IF new_id_turma \in DOMAIN d.turma
                               THEN Some(d.turma[new_id_turma].quantidade_vagas)
                               ELSE None
        alunos_matriculados == Some(Matriculados(d, new_id_turma))
    IN  SqlTrue(SqlGE(alunos_matriculados, vagas_disponiveis))

\* An INSERT INTO turma_instrutor_aluno on a table without its PRIMARY KEY:
\* the trigger and the two foreign keys alone.
InsertMatriculaSemPK(d, id_turma, matricula) ==
    IF \/ verificar_vagas_turma(d, id_turma)
       \/ id_turma \notin DOMAIN d.turma
       \/ matricula \notin DOMAIN d.aluno
    THEN StmtError(d)
    ELSE StmtOk([d EXCEPT !.turma_instrutor_aluno = @ \cup {<<id_turma, matricula>>}],
                <<>>)

\* INSERT INTO turma_instrutor_aluno: the trigger, then PRIMARY KEY
\* (id_turma, matricula) and the two foreign keys.
InsertMatricula(d, id_turma, matricula) ==
    IF \/ verificar_vagas_turma(d, id_turma)
       \/ <<id_turma, matricula>> \in d.turma_instrutor_aluno
       \/ id_turma \notin DOMAIN d.turma
       \/ matricula \notin DOMAIN d.aluno
    THEN StmtError(d)
    ELSE StmtOk([d EXCEPT !.turma_instrutor_aluno = @ \cup {<<id_turma, matricula>>}],
                <<>>)

\* DELETE FROM turma_instrutor_aluno WHERE id_turma = .. AND matricula = ..
DeleteMatricula(d, id_turma, matricula) ==
    StmtOk([d EXCEPT !.turma_instrutor_aluno = @ \ {<<id_turma, matricula>>}], <<>>)

----------------------------------------------------------------------------
(* Connections and the query layer (queries.py).  A psycopg2 connection    *)
(* opens a transaction at its first statement: base is the committed       *)
(* database the transaction started from, work is what it sees.            *)

\* get_connection(): a new connection on the committed database d.
get_connection(d) == [base |-> d, work |-> d]

\* conn.commit(): the committed database becomes what the transaction sees.
commit(conn) == conn.work

\* What a query function gives back: the connection after it, whether it
\* raised, the rows it returned and the exception text.
Returned(conn, rows) == [conn |-> conn, raised |-> FALSE, rows |-> rows, detail |-> ""]

Raised(conn, detail) == [conn |-> conn, raised |-> TRUE, rows |-> <<>>, detail |-> detail]

\* execute_query: runs the statement; on psycopg2.Error it rolls the
\* transaction back and raises Exception("Erro ao executar query: ...").
execute_query(conn, stmt) ==
    IF stmt.error
    THEN Raised([conn EXCEPT !.work = conn.base], "Erro ao executar query")
    ELSE Returned([conn EXCEPT !.work = stmt.db], stmt.rows)

\* The updates/params lists an update_* function builds: the arguments that
\* are not None, by column name.
Supplied(args) == [f \in {g \in DOMAIN args : args[g] # None} |-> Val(args[f])]

\* An INSERT INTO plano that leaves descricao out of its column list.
create_plano_sem_descricao(conn, id, nome_plano, preco, descricao) ==
    execute_query(conn, InsertPlano(conn.work, id, nome_plano, preco, None))

create_plano(conn, id, nome_plano, preco, descricao) ==
    execute_query(conn, InsertPlano(conn.work, id, nome_plano, preco, descricao))

\* An update_plano without `if updates:`: the UPDATE is always issued, and it
\* writes descricao from the argument, NULL when the argument is absent.
update_plano_sempre_escreve(conn, codigo_plano, nome_plano, preco, descricao) ==
    execute_query(conn, UpdatePlanoAnulaAusentes(conn.work, codigo_plano,
                      Supplied([nome_plano |-> nome_plano, preco |-> preco,
                                descricao |-> descricao])))

update_plano(conn, codigo_plano, nome_plano, preco, descricao) ==
    LET updates == Supplied([nome_plano |-> nome_plano, preco |-> preco,
                             descricao |-> descricao])
    IN  IF DOMAIN updates # {}
        THEN execute_query(conn, UpdatePlano(conn.work, codigo_plano, updates))
        ELSE Returned(conn, <<>>)

delete_plano(conn, codigo_plano) ==
    execute_query(conn, DeletePlano(conn.work, codigo_plano))

create_turma(conn, id, nome_atividade, quantidade_vagas, turno, cref) ==
    execute_query(conn, InsertTurma(conn.work, id, nome_atividade, quantidade_vagas,
                                    turno, cref))

update_turma(conn, id_turma, nome_atividade, quantidade_vagas, turno, cref) ==
    LET updates == Supplied([nome_atividade |-> nome_atividade,
                             quantidade_vagas |-> quantidade_vagas,
                             turno |-> turno, cref |-> cref])
    IN  IF DOMAIN updates # {}
        THEN execute_query(conn, UpdateTurma(conn.work, id_turma, updates))
        ELSE Returned(conn, <<>>)

delete_turma(conn, id_turma) ==
    execute_query(conn, DeleteTurma(conn.work, id_turma))

\* A query_vagas that always returns a row: capacity 0 for a class that is
\* not there.
query_vagas_sempre_uma_linha(d, id_turma) ==
    StmtOk(d, << <<IF id_turma \in DOMAIN d.turma
                   THEN d.turma[id_turma].quantidade_vagas ELSE 0,
                   Matriculados(d, id_turma)>> >>)

\* The query_vagas SELECT of create_matricula_turma on the database d the
\* transaction sees: one row <<quantidade_vagas, alunos_matriculados>>, or none.
query_vagas(d, id_turma) ==
    IF id_turma \in DOMAIN d.turma
    THEN StmtOk(d, << <<d.turma[id_turma].quantidade_vagas, Matriculados(d, id_turma)>> >>)
    ELSE StmtOk(d, <<>>)

\* The test create_matricula_turma makes on the row query_vagas returned.
SemVagas(row) == row[2] >= row[1]

create_matricula_turma(conn, id_turma, matricula) ==
    LET result == execute_query(conn, query_vagas(conn.work, id_turma))
    IN  IF result.raised THEN result
        ELSE IF result.rows = <<>> THEN Raised(result.conn, "Turma nao encontrada")
        ELSE IF SemVagas(result.rows[1])
             THEN Raised(result.conn, "Turma sem vagas disponiveis")
        ELSE execute_query(result.conn,
                           InsertMatricula(result.conn.work, id_turma, matricula))

\* A delete_matricula_turma whose DELETE has no `AND matricula = %s`: every
\* enrolment of the class goes.
delete_matricula_turma_da_turma(conn, id_turma, matricula) ==
    execute_query(conn, StmtOk([conn.work EXCEPT !.turma_instrutor_aluno =
                                    {e \in @ : e[1] # id_turma}], <<>>))

delete_matricula_turma(conn, id_turma, matricula) ==
    execute_query(conn, DeleteMatricula(conn.work, id_turma, matricula))

create_aluno(conn, id, cpf, nome, sexo, data_nascimento, data_matricula, codigo_plano) ==
    execute_query(conn, InsertAluno(conn.work, id, cpf, nome, sexo, data_nascimento,
                                    data_matricula, codigo_plano))

update_aluno(conn, matricula, cpf, nome, sexo, data_nascimento, data_matricula, codigo_plano) ==
    LET updates == Supplied([cpf |-> cpf, nome |-> nome, sexo |-> sexo,
                             data_nascimento |-> data_nascimento,
                             data_matricula |-> data_matricula,
                             codigo_plano |-> codigo_plano])
    IN  IF DOMAIN updates # {}
        THEN execute_query(conn, UpdateAluno(conn.work, matricula, updates))
        ELSE Returned(conn, <<>>)

delete_aluno(conn, matricula) ==
    execute_query(conn, DeleteAluno(conn.work, matricula))

create_contato_aluno(conn, matricula, telefone, email) ==
    execute_query(conn, InsertContatoAluno(conn.work, matricula, telefone, email))

create_contato_instrutor(conn, cref, telefone, email) ==
    execute_query(conn, InsertContatoInstrutor(conn.work, cref, telefone, email))

update_contato_aluno(conn, matricula, telefone, email) ==
    LET updates == Supplied([telefone |-> telefone, email |-> email])
    IN  IF DOMAIN updates # {}
        THEN execute_query(conn, UpdateContatoAluno(conn.work, matricula, updates))
        ELSE Returned(conn, <<>>)

update_contato_instrutor(conn, cref, telefone, email) ==
    LET updates == Supplied([telefone |-> telefone, email |-> email])
    IN  IF DOMAIN updates # {}
        THEN execute_query(conn, UpdateContatoInstrutor(conn.work, cref, updates))
        ELSE Returned(conn, <<>>)

create_bioimpedancia(conn, matricula, peso, altura, tmb, percentual_gordura, quantidade_agua) ==
    execute_query(conn, InsertBioimpedancia(conn.work, matricula, peso, altura, tmb,
                                            percentual_gordura, quantidade_agua))

update_bioimpedancia(conn, matricula, peso, altura, tmb, percentual_gordura, quantidade_agua) ==
    LET updates == Supplied([peso |-> peso, altura |-> altura, tmb |-> tmb,
                             percentual_gordura |-> percentual_gordura,
                             quantidade_agua |-> quantidade_agua])
    IN  IF DOMAIN updates # {}
        THEN execute_query(conn, UpdateBioimpedancia(conn.work, matricula, updates))
        ELSE Returned(conn, <<>>)

delete_bioimpedancia(conn, matricula) ==
    execute_query(conn, DeleteBioimpedancia(conn.work, matricula))

create_instrutor(conn, today, cref, cpf, nome, data_nascimento, data_admissao, turno) ==
    execute_query(conn, InsertInstrutor(conn.work, today, cref, cpf, nome,
                                        data_nascimento, data_admissao, turno))

update_instrutor(conn, today, cref, cpf, nome, data_nascimento, data_admissao, turno) ==
    LET updates == Supplied([cpf |-> cpf, nome |-> nome,
                             data_nascimento |-> data_nascimento,
                             data_admissao |-> data_admissao, turno |-> turno])
    IN  IF DOMAIN updates # {}
        THEN execute_query(conn, UpdateInstrutor(conn.work, today, cref, updates))
        ELSE Returned(conn, <<>>)

delete_instrutor(conn, cref) ==
    execute_query(conn, DeleteInstrutor(conn.work, cref))

----------------------------------------------------------------------------
(* Reads.  A result set is a sequence of rows; a row is a record by column *)
(* name.  ORDER BY on a text column uses the alphabetical order of the     *)
(* text values of the model; rows with equal keys come in id order (SQL    *)
(* leaves their order open).                                               *)

OrdemAlfabetica == <<"Ana", "Bia", "Ioga", "Pilates">>

Ord(s) == CHOOSE i \in 1..Len(OrdemAlfabetica) : OrdemAlfabetica[i] = s

\* The rows of set S, each <<text key, id, row>>, as a sequence in id order,
\* whatever their keys.
RECURSIVE OrdenaPeloId(_)
OrdenaPeloId(S) ==
    IF S = {} THEN <<>>
    ELSE LET first == CHOOSE x \in S : \A y \in S \ {x} : x[2] <= y[2]
         IN  <<first[3]>> \o OrdenaPeloId(S \ {first})

\* The rows of set S, each <<text key, id, row>>, as a sequence in key order.
RECURSIVE OrderBy(_)
OrderBy(S) ==
    IF S = {} THEN <<>>
    ELSE LET first == CHOOSE x \in S : \A y \in S \ {x} :
                          \/ Ord(x[1]) < Ord(y[1])
                          \/ Ord(x[1]) = Ord(y[1]) /\ x[2] <= y[2]
         IN  <<first[3]>> \o OrderBy(S \ {first})

\* The rows of set S, each <<id, row>>, as a sequence in id order.
RECURSIVE OrderById(_)
OrderById(S) ==
    IF S = {} THEN <<>>
    ELSE LET first == CHOOSE x \in S : \A y \in S \ {x} : x[1] < y[1]
         IN  <<first[2]>> \o OrderById(S \ {first})

\* read_plano: `if codigo_plano:` selects one plan, else all by codigo_plano.
read_plano(conn, codigo_plano) ==
    LET d == conn.work
        Row(id) == [codigo_plano |-> id, nome_plano |-> d.plano[id].nome_plano,
                    preco |-> d.plano[id].preco, descricao |-> d.plano[id].descricao]
        ids == IF Truthy(codigo_plano)
               THEN {Val(codigo_plano)} \cap DOMAIN d.plano
               ELSE DOMAIN d.plano
    IN  Returned(conn, OrderById({<<id, Row(id)>> : id \in ids}))

\* aluno LEFT JOIN contato_aluno: a row per contact, or one with NULLs.
AlunoJoinContato(d, ms) ==
    LET Row(m, t) == [matricula |-> m, cpf |-> d.aluno[m].cpf, nome |-> d.aluno[m].nome,
                      sexo |-> d.aluno[m].sexo,
                      data_nascimento |-> d.aluno[m].data_nascimento,
                      data_matricula |-> d.aluno[m].data_matricula,
                      codigo_plano |-> d.aluno[m].codigo_plano,
                      telefone |-> t,
                      email |-> IF t = None THEN None ELSE d.contato_aluno[Val(t)].email]
        Tels(m) == {t \in DOMAIN d.contato_aluno : d.contato_aluno[t].matricula = m}
    IN  UNION {IF Tels(m) = {} THEN {<<d.aluno[m].nome, m, Row(m, None)>>}
               ELSE {<<d.aluno[m].nome, m, Row(m, Some(t))>> : t \in Tels(m)} : m \in ms}

\* read_aluno: `if matricula:` selects one student, else all by nome.
read_aluno(conn, matricula) ==
    LET d == conn.work
        ms == IF Truthy(matricula)
              THEN {Val(matricula)} \cap DOMAIN d.aluno
              ELSE DOMAIN d.aluno
    IN  Returned(conn, OrderBy(AlunoJoinContato(d, ms)))

\* read_bioimpedancia: `if matricula:` selects one measurement, else all.
read_bioimpedancia(conn, matricula) ==
    LET d == conn.work
        Row(m) == [matricula |-> m, peso |-> d.bioimpedancia[m].peso,
                   altura |-> d.bioimpedancia[m].altura, tmb |-> d.bioimpedancia[m].tmb,
                   percentual_gordura |-> d.bioimpedancia[m].percentual_gordura,
                   quantidade_agua |-> d.bioimpedancia[m].quantidade_agua]
        ms == IF Truthy(matricula)
              THEN {Val(matricula)} \cap DOMAIN d.bioimpedancia
              ELSE DOMAIN d.bioimpedancia
    IN  Returned(conn, OrderById({<<m, Row(m)>> : m \in ms}))

\* instrutor LEFT JOIN contato_instrutor
InstrutorJoinContato(d, cs) ==
    LET Row(c, t) == [cref |-> c, cpf |-> d.instrutor[c].cpf, nome |-> d.instrutor[c].nome,
                      data_nascimento |-> d.instrutor[c].data_nascimento,
                      data_admissao |-> d.instrutor[c].data_admissao,
                      turno |-> d.instrutor[c].turno,
                      telefone |-> t,
                      email |-> IF t = None THEN None
                                ELSE d.contato_instrutor[Val(t)].email]
        Tels(c) == {t \in DOMAIN d.contato_instrutor : d.contato_instrutor[t].cref = c}
    IN  UNION {IF Tels(c) = {} THEN {<<d.instrutor[c].nome, c, Row(c, None)>>}
               ELSE {<<d.instrutor[c].nome, c, Row(c, Some(t))>> : t \in Tels(c)} : c \in cs}

\* read_instrutor: `if cref:` selects one instructor and raises when there is
\* none, else all by nome.
read_instrutor(conn, cref) ==
    LET d == conn.work
    IN  IF Truthy(cref)
        THEN LET result == OrderBy(InstrutorJoinContato(d, {Val(cref)} \cap DOMAIN d.instrutor))
             IN  IF result = <<>> THEN Raised(conn, "Instrutor nao encontrado")
                 ELSE Returned(conn, result)
        ELSE Returned(conn, OrderBy(InstrutorJoinContato(d, DOMAIN d.instrutor)))

read_instrutor_por_cref(conn, cref) ==
    LET d == conn.work
    IN  Returned(conn, OrderBy(InstrutorJoinContato(d, {cref} \cap DOMAIN d.instrutor)))

\* turma JOIN instrutor LEFT JOIN contato_instrutor, with the enrolled
\* students aggregated (NULL when there is none), grouped per class and contact.
TurmaJoin(d, ts) ==
    LET Alunos(t) == {e[2] : e \in {x \in d.turma_instrutor_aluno : x[1] = t}}
        Row(t, i) == [id_turma |-> t, nome_atividade |-> d.turma[t].nome_atividade,
                      quantidade_vagas |-> d.turma[t].quantidade_vagas,
                      turno |-> d.turma[t].turno, cref |-> d.turma[t].cref,
                      instrutor |-> i,
                      alunos |-> IF Alunos(t) = {} THEN None ELSE Some(Alunos(t))]
    IN  UNION {{<<d.turma[t].nome_atividade, t, Row(t, x[3])>> :
                  x \in InstrutorJoinContato(d, {d.turma[t].cref} \cap DOMAIN d.instrutor)} :
               t \in ts}

\* read_turma: `if id_turma:` selects one class, else all by nome_atividade.
read_turma(conn, id_turma) ==
    LET d == conn.work
        ts == IF Truthy(id_turma)
              THEN {Val(id_turma)} \cap DOMAIN d.turma
              ELSE DOMAIN d.turma
    IN  Returned(conn, OrderBy(TurmaJoin(d, ts)))

\* A report view that joins each student to the plan whose id is the
\* student's matricula.
vw_relatorio_alunos_plano_errado(d, today) ==
    {<<d.aluno[m].nome, m,
       [matricula |-> m, nome_aluno |-> d.aluno[m].nome, cpf |-> d.aluno[m].cpf,
        idade |-> today - d.aluno[m].data_nascimento,
        data_matricula |-> d.aluno[m].data_matricula,
        nome_plano |-> d.plano[m].nome_plano,
        valor_plano |-> d.plano[m].preco]>> : m \in DOMAIN d.aluno \cap DOMAIN d.plano}

\* The view vw_relatorio_alunos: aluno JOIN plano on codigo_plano, with the
\* age in whole years at today.  Each row comes with its nome_aluno and id.
vw_relatorio_alunos(d, today) ==
    {<<d.aluno[m].nome, m,
       [matricula |-> m, nome_aluno |-> d.aluno[m].nome, cpf |-> d.aluno[m].cpf,
        idade |-> today - d.aluno[m].data_nascimento,
        data_matricula |-> d.aluno[m].data_matricula,
        nome_plano |-> d.plano[d.aluno[m].codigo_plano].nome_plano,
        valor_plano |-> d.plano[d.aluno[m].codigo_plano].preco]>> :
     m \in {x \in DOMAIN d.aluno : d.aluno[x].codigo_plano \in DOMAIN d.plano}}

\* get_relatorio_alunos: SELECT * FROM vw_relatorio_alunos ORDER BY nome_aluno
get_relatorio_alunos(conn, today) ==
    Returned(conn, OrderBy(vw_relatorio_alunos(conn.work, today)))

----------------------------------------------------------------------------
(* Row to response conversions (utils/helpers.py) *)

plano_to_dict(row) ==
    [codigo_plano |-> row.codigo_plano, nome_plano |-> row.nome_plano,
     preco |-> FromNumeric2(row.preco), descricao |-> row.descricao]

aluno_to_dict(row) ==
    [matricula |-> row.matricula, cpf |-> row.cpf, nome |-> row.nome, sexo |-> row.sexo,
     data_nascimento |-> row.data_nascimento, data_matricula |-> row.data_matricula,
     codigo_plano |-> row.codigo_plano,
     contato |-> IF row.telefone # None \/ row.email # None
                 THEN Some([telefone |-> row.telefone, email |-> row.email])
                 ELSE None]

bioimpedancia_to_dict(row) ==
    [matricula |-> row.matricula, peso |-> FromNumeric2(row.peso),
     altura |-> FromNumeric2(row.altura), tmb |-> row.tmb,
     percentual_gordura |-> FromNumeric2(row.percentual_gordura),
     quantidade_agua |-> FromNumeric2(row.quantidade_agua)]

instrutor_to_dict(row) ==
    [cref |-> row.cref, cpf |-> row.cpf, nome |-> row.nome,
     data_nascimento |-> row.data_nascimento, data_admissao |-> row.data_admissao,
     turno |-> row.turno,
     contato |-> IF row.telefone # None \/ row.email # None
                 THEN Some([telefone |-> row.telefone, email |-> row.email])
                 ELSE None]

turma_to_dict(row) ==
    [id_turma |-> row.id_turma, nome_atividade |-> row.nome_atividade,
     quantidade_vagas |-> row.quantidade_vagas, turno |-> row.turno, cref |-> row.cref,
     instrutor |-> instrutor_to_dict(row.instrutor),
     alunos |-> IF row.alunos # None THEN Val(row.alunos) ELSE {}]

----------------------------------------------------------------------------
(* Request handlers (routes/api.py).  Each takes the committed database d, *)
(* the sequences s and the request, and gives the committed database and   *)
(* sequences after the request with the response.  A handler that leaves   *)
(* without conn.commit() drops its connection, and the server discards     *)
(* the open transaction.  A sequence value, once taken by an INSERT, is    *)
(* not given back when the INSERT or its transaction fails.                *)

Result(d, s, status, detail, body) ==
    [db |-> d, seq |-> s, status |-> status, detail |-> detail, body |-> body]

criar_plano(d, s, plano) ==
    LET conn   == get_connection(d)
        id     == s.plano + 1
        s1     == [s EXCEPT !.plano = id]
        result == create_plano(conn, id, plano.nome_plano, plano.preco, plano.descricao)
    IN  IF result.raised THEN Result(d, s1, 400, result.detail, None)
        ELSE Result(commit(result.conn), s1, 201, "",
                    Some([codigo_plano |-> result.rows[1],
                          nome_plano |-> plano.nome_plano,
                          preco |-> plano.preco,
                          descricao |-> plano.descricao]))

buscar_plano(d, s, codigo_plano) ==
    LET result == read_plano(get_connection(d), Some(codigo_plano))
    IN  IF result.raised THEN Result(d, s, 400, result.detail, None)
        ELSE IF result.rows = <<>> THEN Result(d, s, 404, "Plano nao encontrado", None)
        ELSE Result(d, s, 200, "", Some(plano_to_dict(result.rows[1])))

\* PlanoResponse(codigo_plano=..., **plano.model_dump()) is built after the
\* commit; it requires nome_plano and preco, which PlanoUpdate leaves optional.
atualizar_plano(d, s, codigo_plano, plano) ==
    LET conn   == get_connection(d)
        result == update_plano(conn, codigo_plano, plano.nome_plano, plano.preco,
                               plano.descricao)
    IN  IF result.raised THEN Result(d, s, 400, result.detail, None)
        ELSE IF plano.nome_plano = None \/ plano.preco = None
             THEN Result(commit(result.conn), s, 400, "validation error for PlanoResponse",
                         None)
        ELSE Result(commit(result.conn), s, 200, "",
                    Some([codigo_plano |-> codigo_plano,
                          nome_plano |-> Val(plano.nome_plano),
                          preco |-> Val(plano.preco),
                          descricao |-> plano.descricao]))

deletar_plano(d, s, codigo_plano) ==
    LET result == delete_plano(get_connection(d), codigo_plano)
    IN  IF result.raised THEN Result(d, s, 400, result.detail, None)
        ELSE Result(commit(result.conn), s, 204, "", None)

\* A student creation that commits the student row before the contact insert.
criar_aluno_commit_cedo(d, s, aluno) ==
    LET id     == s.aluno + 1
        s1     == [s EXCEPT !.aluno = id]
        result == create_aluno(get_connection(d), id, aluno.cpf, aluno.nome, aluno.sexo,
                               aluno.data_nascimento, aluno.data_matricula,
                               aluno.codigo_plano)
    IN  IF result.raised THEN Result(d, s1, 400, result.detail, <<>>)
        ELSE LET d1      == commit(result.conn)
                 contato == create_contato_aluno(get_connection(d1), result.rows[1],
                                aluno.contato.telefone, aluno.contato.email)
             IN  IF contato.raised THEN Result(d1, s1, 400, contato.detail, <<>>)
                 ELSE Result(commit(contato.conn), s1, 201, "", <<>>)

criar_aluno(d, s, aluno) ==
    LET conn   == get_connection(d)
        id     == s.aluno + 1
        s1     == [s EXCEPT !.aluno = id]
        result == create_aluno(conn, id, aluno.cpf, aluno.nome, aluno.sexo,
                               aluno.data_nascimento, aluno.data_matricula,
                               aluno.codigo_plano)
    IN  IF result.raised THEN Result(d, s1, 400, result.detail, None)
        ELSE LET matricula == result.rows[1]
                 contato   == create_contato_aluno(result.conn, matricula,
                                  aluno.contato.telefone, aluno.contato.email)
             IN  IF contato.raised THEN Result(d, s1, 400, contato.detail, None)
                 ELSE Result(commit(contato.conn), s1, 201, "",
                             Some([matricula |-> matricula, cpf |-> aluno.cpf,
                                   nome |-> aluno.nome, sexo |-> aluno.sexo,
                                   data_nascimento |-> aluno.data_nascimento,
                                   data_matricula |-> aluno.data_matricula,
                                   codigo_plano |-> aluno.codigo_plano,
                                   contato |-> Some(aluno.contato)]))

buscar_aluno(d, s, matricula) ==
    LET result == read_aluno(get_connection(d), Some(matricula))
    IN  IF result.raised THEN Result(d, s, 400, result.detail, None)
        ELSE IF result.rows = <<>> THEN Result(d, s, 404, "Aluno nao encontrado", None)
        ELSE Result(d, s, 200, "", Some(aluno_to_dict(result.rows[1])))

\* What an update handler answers after its commit: the answer of the buscar_
\* handler it awaits, whose HTTPException (404 included) its own
\* `except Exception` turns into a 400.
AfterCommit(found) ==
    IF found.status = 200 THEN found
    ELSE Result(found.db, found.seq, 400, found.detail, None)

atualizar_aluno(d, s, matricula, aluno) ==
    LET conn   == get_connection(d)
        result == update_aluno(conn, matricula, aluno.cpf, aluno.nome, aluno.sexo,
                               aluno.data_nascimento, aluno.data_matricula,
                               aluno.codigo_plano)
    IN  IF result.raised THEN Result(d, s, 400, result.detail, None)
        ELSE LET contato == IF aluno.contato # None
                            THEN update_contato_aluno(result.conn, matricula,
                                     Some(Val(aluno.contato).telefone),
                                     Val(aluno.contato).email)
                            ELSE result
             IN  IF contato.raised THEN Result(d, s, 400, contato.detail, None)
                 ELSE AfterCommit(buscar_aluno(commit(contato.conn), s, matricula))

deletar_aluno(d, s, matricula) ==
    LET result == delete_aluno(get_connection(d), matricula)
    IN  IF result.raised THEN Result(d, s, 400, result.detail, None)
        ELSE Result(commit(result.conn), s, 204, "", None)

criar_bioimpedancia(d, s, bio) ==
    LET result == create_bioimpedancia(get_connection(d), bio.matricula, bio.peso,
                      bio.altura, bio.tmb, bio.percentual_gordura, bio.quantidade_agua)
    IN  IF result.raised THEN Result(d, s, 400, result.detail, None)
        ELSE Result(commit(result.conn), s, 201, "", Some(bio))

buscar_bioimpedancia(d, s, matricula) ==
    LET result == read_bioimpedancia(get_connection(d), Some(matricula))
    IN  IF result.raised THEN Result(d, s, 400, result.detail, None)
        ELSE IF result.rows = <<>> THEN Result(d, s, 404, "Medicao nao encontrada", None)
        ELSE Result(d, s, 200, "", Some(bioimpedancia_to_dict(result.rows[1])))

\* The body is a BioimpedanciaCreate: every measurement is required, and the
\* matricula of the body is not used.
atualizar_bioimpedancia(d, s, matricula, bio) ==
    LET result == update_bioimpedancia(get_connection(d), matricula, Some(bio.peso),
                      Some(bio.altura), Some(bio.tmb), Some(bio.percentual_gordura),
                      Some(bio.quantidade_agua))
    IN  IF result.raised THEN Result(d, s, 400, result.detail, None)
        ELSE AfterCommit(buscar_bioimpedancia(commit(result.conn), s, matricula))

deletar_bioimpedancia(d, s, matricula) ==
    LET result == delete_bioimpedancia(get_connection(d), matricula)
    IN  IF result.raised THEN Result(d, s, 400, result.detail, None)
        ELSE Result(commit(result.conn), s, 204, "", None)

criar_instrutor(d, s, today, instrutor) ==
    LET result == create_instrutor(get_connection(d), today, instrutor.cref,
                      instrutor.cpf, instrutor.nome, instrutor.data_nascimento,
                      instrutor.data_admissao, instrutor.turno)
    IN  IF result.raised THEN Result(d, s, 400, result.detail, None)
        ELSE LET contato == create_contato_instrutor(result.conn, instrutor.cref,
                                instrutor.contato.telefone, instrutor.contato.email)
             IN  IF contato.raised THEN Result(d, s, 400, contato.detail, None)
                 ELSE Result(commit(contato.conn), s, 201, "",
                             Some([cref |-> instrutor.cref, cpf |-> instrutor.cpf,
                                   nome |-> instrutor.nome,
                                   data_nascimento |-> instrutor.data_nascimento,
                                   data_admissao |-> instrutor.data_admissao,
                                   turno |-> instrutor.turno,
                                   contato |-> Some(instrutor.contato)]))

buscar_instrutor(d, s, cref) ==
    LET result == read_instrutor(get_connection(d), Some(cref))
    IN  IF result.raised THEN Result(d, s, 400, result.detail, None)
        ELSE IF result.rows = <<>> THEN Result(d, s, 404, "Instrutor nao encontrado", None)
        ELSE Result(d, s, 200, "", Some(instrutor_to_dict(result.rows[1])))

atualizar_instrutor(d, s, today, cref, instrutor) ==
    LET result == update_instrutor(get_connection(d), today, cref, instrutor.cpf,
                      instrutor.nome, instrutor.data_nascimento, instrutor.data_admissao,
                      instrutor.turno)
    IN  IF result.raised THEN Result(d, s, 400, result.detail, None)
        ELSE LET contato == IF instrutor.contato # None
                            THEN update_contato_instrutor(result.conn, cref,
                                     Some(Val(instrutor.contato).telefone),
                                     Val(instrutor.contato).email)
                            ELSE result
             IN  IF contato.raised THEN Result(d, s, 400, contato.detail, None)
                 ELSE AfterCommit(buscar_instrutor(commit(contato.conn), s, cref))

deletar_instrutor(d, s, cref) ==
    LET result == delete_instrutor(get_connection(d), cref)
    IN  IF result.raised THEN Result(d, s, 400, result.detail, None)
        ELSE Result(commit(result.conn), s, 204, "", None)

\* The turma sequence is taken only when the INSERT is issued.
criar_turma(d, s, turma) ==
    LET conn             == get_connection(d)
        instrutor_result == read_instrutor_por_cref(conn, turma.cref)
    IN  IF instrutor_result.rows = <<>>
        THEN Result(d, s, 404, "Instrutor nao encontrado", None)
        ELSE LET id     == s.turma + 1
                 s1     == [s EXCEPT !.turma = id]
                 result == create_turma(instrutor_result.conn, id, turma.nome_atividade,
                                        turma.quantidade_vagas, turma.turno, turma.cref)
             IN  IF result.raised THEN Result(d, s1, 400, result.detail, None)
                 ELSE Result(commit(result.conn), s1, 201, "",
                             Some([id_turma |-> result.rows[1],
                                   nome_atividade |-> turma.nome_atividade,
                                   quantidade_vagas |-> turma.quantidade_vagas,
                                   turno |-> turma.turno, cref |-> turma.cref,
                                   instrutor |-> instrutor_to_dict(instrutor_result.rows[1]),
                                   alunos |-> {}]))

buscar_turma(d, s, id_turma) ==
    LET result == read_turma(get_connection(d), Some(id_turma))
    IN  IF result.raised THEN Result(d, s, 400, result.detail, None)
        ELSE IF result.rows = <<>> THEN Result(d, s, 404, "Turma nao encontrada", None)
        ELSE Result(d, s, 200, "", Some(turma_to_dict(result.rows[1])))

atualizar_turma(d, s, id_turma, turma) ==
    LET result == update_turma(get_connection(d), id_turma, turma.nome_atividade,
                      turma.quantidade_vagas, turma.turno, turma.cref)
    IN  IF result.raised THEN Result(d, s, 400, result.detail, None)
        ELSE AfterCommit(buscar_turma(commit(result.conn), s, id_turma))

deletar_turma(d, s, id_turma) ==
    LET result == delete_turma(get_connection(d), id_turma)
    IN  IF result.raised THEN Result(d, s, 400, result.detail, None)
        ELSE Result(commit(result.conn), s, 204, "", None)

\* An enrol handler that answers 201 without conn.commit().
matricular_sem_commit(d, s, id_turma, matricula) ==
    LET result == create_matricula_turma(get_connection(d), id_turma, matricula)
    IN  IF result.raised THEN Result(d, s, 400, result.detail, None)
        ELSE Result(d, s, 201, "", None)

matricular_aluno_turma(d, s, id_turma, matricula) ==
    LET result == create_matricula_turma(get_connection(d), id_turma, matricula)
    IN  IF result.raised THEN Result(d, s, 400, result.detail, None)
        ELSE Result(commit(result.conn), s, 201, "", None)

\* An unenrol handler that answers 204 without conn.commit().
remover_sem_commit(d, s, id_turma, matricula) ==
    LET result == delete_matricula_turma(get_connection(d), id_turma, matricula)
    IN  IF result.raised THEN Result(d, s, 400, result.detail, None)
        ELSE Result(d, s, 204, "", None)

remover_aluno_turma(d, s, id_turma, matricula) ==
    LET result == delete_matricula_turma(get_connection(d), id_turma, matricula)
    IN  IF result.raised THEN Result(d, s, 400, result.detail, None)
        ELSE Result(commit(result.conn), s, 204, "", None)

\* A Python slice bound i on a list of n elements: a negative bound counts
\* from the end, and every bound is clamped to 0..n.
SliceBound(i, n) ==
    IF i < 0 THEN (IF i + n < 0 THEN 0 ELSE i + n)
    ELSE IF i > n THEN n ELSE i

\* xs[skip : skip + limit]
Slice(xs, skip, limit) ==
    SubSeq(xs, SliceBound(skip, Len(xs)) + 1, SliceBound(skip + limit, Len(xs)))

\* [f(row) for row in rows]
Each(f(_), rows) == [i \in 1..Len(rows) |-> f(rows[i])]

listar_planos(d, s, skip, limit) ==
    LET result == read_plano(get_connection(d), None)
    IN  IF result.raised THEN Result(d, s, 400, result.detail, None)
        ELSE Result(d, s, 200, "", Some(Slice(Each(plano_to_dict, result.rows), skip, limit)))

listar_alunos(d, s, skip, limit) ==
    LET result == read_aluno(get_connection(d), None)
    IN  IF result.raised THEN Result(d, s, 400, result.detail, None)
        ELSE Result(d, s, 200, "", Some(Slice(Each(aluno_to_dict, result.rows), skip, limit)))

listar_instrutores(d, s, skip, limit) ==
    LET result == read_instrutor(get_connection(d), None)
    IN  IF result.raised THEN Result(d, s, 400, result.detail, None)
        ELSE Result(d, s, 200, "",
                    Some(Slice(Each(instrutor_to_dict, result.rows), skip, limit)))

\* TurmaResponse.from_tuple: the columns of a read_turma row by position.
TurmaResponse_from_tuple(row) ==
    [id_turma |-> row.id_turma, nome_atividade |-> row.nome_atividade,
     quantidade_vagas |-> row.quantidade_vagas, turno |-> row.turno, cref |-> row.cref,
     instrutor |-> [cref |-> row.cref, cpf |-> row.instrutor.cpf,
                    nome |-> row.instrutor.nome,
                    data_nascimento |-> row.instrutor.data_nascimento,
                    data_admissao |-> row.instrutor.data_admissao,
                    turno |-> row.instrutor.turno,
                    contato |-> IF row.instrutor.telefone # None
                                   \/ row.instrutor.email # None
                                THEN Some([telefone |-> row.instrutor.telefone,
                                           email |-> row.instrutor.email])
                                ELSE None],
     alunos |-> IF row.alunos # None THEN Val(row.alunos) ELSE {}]

listar_turmas(d, s, skip, limit) ==
    LET result == read_turma(get_connection(d), None)
    IN  IF result.raised THEN Result(d, s, 400, result.detail, None)
        ELSE Result(d, s, 200, "",
                    Some(Slice(Each(TurmaResponse_from_tuple, result.rows), skip, limit)))

\* The dict relatorio_alunos builds of a report row: float(row[6]) for the price.
RelatorioLinha(row) == [row EXCEPT !.valor_plano = FromNumeric2(@)]

relatorio_alunos(d, s, today, skip, limit) ==
    LET result == get_relatorio_alunos(get_connection(d), today)
    IN  IF result.raised THEN Result(d, s, 400, result.detail, None)
        ELSE Result(d, s, 200, "", Some(Slice(Each(RelatorioLinha, result.rows), skip, limit)))

----------------------------------------------------------------------------
(* The stored function atualizar_plano_aluno(p_matricula, p_novo_plano),   *)
(* run as one statement in its own transaction.  NULL prices (no such      *)
(* student, no such plan) make the comparison NULL, which does not return  *)
(* the error; the UPDATE then matches no row, or breaks the foreign key.   *)

atualizar_plano_aluno(d, today, p_matricula, p_novo_plano) ==
    LET preco_atual == IF p_matricula \in DOMAIN d.aluno
                       THEN Some(d.plano[d.aluno[p_matricula].codigo_plano].preco)
                       ELSE None
        preco_novo  == IF p_novo_plano \in DOMAIN d.plano
                       THEN Some(d.plano[p_novo_plano].preco)
                       ELSE None
    IN  IF SqlTrue(SqlLE(preco_novo, preco_atual))
        THEN [db |-> d, error |-> FALSE,
              ret |-> "Erro: O novo plano deve ser mais caro que o atual!"]
        ELSE LET upd == UpdateAluno(d, p_matricula,
                            [codigo_plano |-> p_novo_plano, data_matricula |-> today])
             IN  IF upd.error THEN [db |-> d, error |-> TRUE, ret |-> "foreign key violation"]
                 ELSE [db |-> upd.db, error |-> FALSE, ret |-> "Plano alterado com sucesso!"]

----------------------------------------------------------------------------
(* State machine.  One action per request: the whole handler runs as one   *)
(* step, alone (no enrol request in flight on another connection).         *)

Workers == 1..NumWorkers

Hoje0 == IdadeMinima + 2

NoRequest == [op |-> "none", req |-> <<>>, status |-> 0, detail |-> "", body |-> None]

\* The value of last in a specification that keeps no record of the requests.
NotRecorded == [op |-> "not recorded", req |-> <<>>, status |-> 0, detail |-> "",
                body |-> None]

Record(op, req, status, detail, body) ==
    IF last = NotRecorded THEN NotRecorded
    ELSE [op |-> op, req |-> req, status |-> status, detail |-> detail, body |-> body]

\* The value of abertas in a specification that does not count connections.
NaoContadas == 0 - 1

IdleTx == [pc |-> "idle", id_turma |-> 0, matricula |-> 0, status |-> 0, detail |-> ""]

NoBatch == [id_turma |-> 0, livres |-> 0, n |-> 0]

\* A start with database d, sequences s, l as the record of requests and a
\* as the count of open connections.
StartCom(d, s, l, a) ==
    /\ db = d
    /\ seq = s
    /\ hoje = Hoje0
    /\ last = l
    /\ tx = [w \in Workers |-> IdleTx]
    /\ batch = NoBatch
    /\ abertas = a

\* A start that does not count connections.
Start(d, s, l) == StartCom(d, s, l, NaoContadas)

Quiet == \A w \in Workers : tx[w].pc = "idle"

\* The connections the handler of op acquired with get_connection() and had
\* not closed when it ended with r.  No handler calls conn.close(), and the
\* four update handlers that await a buscar_ handler after their commit
\* acquire a second connection there.
Abertas(op, r) ==
    IF /\ op \in {"atualizar_aluno", "atualizar_bioimpedancia", "atualizar_instrutor",
                  "atualizar_turma"}
       /\ r.detail # "Erro ao executar query"
    THEN 2 ELSE 1

\* The count a after n more connections were left open.
Deixa(a, n) == IF a = NaoContadas THEN NaoContadas ELSE a + n

Serve(op, req, r) ==
    /\ Quiet
    /\ db' = r.db
    /\ seq' = r.seq
    /\ last' = Record(op, req, r.status, r.detail, r.body)
    /\ batch' = NoBatch
    /\ abertas' = Deixa(abertas, Abertas(op, r))
    /\ UNCHANGED <<hoje, tx>>

POST_planos_ate(cap, plano) ==
    /\ seq.plano < cap
    /\ Serve("criar_plano", plano, criar_plano(db, seq, plano))

POST_planos(plano) == POST_planos_ate(MaxSerial, plano)

PUT_planos(codigo_plano, plano) ==
    Serve("atualizar_plano", [codigo_plano |-> codigo_plano, plano |-> plano],
          atualizar_plano(db, seq, codigo_plano, plano))

DELETE_planos(codigo_plano) ==
    Serve("deletar_plano", [codigo_plano |-> codigo_plano],
          deletar_plano(db, seq, codigo_plano))

\* POST /alunos while the aluno sequence has given fewer than cap values.
POST_alunos_ate(cap, aluno) ==
    /\ seq.aluno < cap
    /\ Serve("criar_aluno", aluno, criar_aluno(db, seq, aluno))

POST_alunos(aluno) == POST_alunos_ate(MaxSerial, aluno)

PUT_alunos(matricula, aluno) ==
    Serve("atualizar_aluno", [matricula |-> matricula, aluno |-> aluno],
          atualizar_aluno(db, seq, matricula, aluno))

DELETE_alunos(matricula) ==
    Serve("deletar_aluno", [matricula |-> matricula], deletar_aluno(db, seq, matricula))

POST_bioimpedancia(bio) ==
    Serve("criar_bioimpedancia", bio, criar_bioimpedancia(db, seq, bio))

PUT_bioimpedancia(matricula, bio) ==
    Serve("atualizar_bioimpedancia", [matricula |-> matricula, bio |-> bio],
          atualizar_bioimpedancia(db, seq, matricula, bio))

DELETE_bioimpedancia(matricula) ==
    Serve("deletar_bioimpedancia", [matricula |-> matricula],
          deletar_bioimpedancia(db, seq, matricula))

POST_instrutores(instrutor) ==
    Serve("criar_instrutor", instrutor, criar_instrutor(db, seq, hoje, instrutor))

PUT_instrutores(cref, instrutor) ==
    Serve("atualizar_instrutor", [cref |-> cref, instrutor |-> instrutor],
          atualizar_instrutor(db, seq, hoje, cref, instrutor))

DELETE_instrutores(cref) ==
    Serve("deletar_instrutor", [cref |-> cref], deletar_instrutor(db, seq, cref))

\* POST /turmas while the turma sequence has given fewer than cap values.
POST_turmas_ate(cap, turma) ==
    /\ seq.turma < cap
    /\ Serve("criar_turma", turma, criar_turma(db, seq, turma))

POST_turmas(turma) == POST_turmas_ate(MaxSerial, turma)

PUT_turmas(id_turma, turma) ==
    Serve("atualizar_turma", [id_turma |-> id_turma, turma |-> turma],
          atualizar_turma(db, seq, id_turma, turma))

DELETE_turmas(id_turma) ==
    Serve("deletar_turma", [id_turma |-> id_turma], deletar_turma(db, seq, id_turma))

POST_turmas_alunos(id_turma, matricula) ==
    Serve("matricular_aluno_turma", [id_turma |-> id_turma, matricula |-> matricula],
          matricular_aluno_turma(db, seq, id_turma, matricula))

DELETE_turmas_alunos(id_turma, matricula) ==
    Serve("remover_aluno_turma", [id_turma |-> id_turma, matricula |-> matricula],
          remover_aluno_turma(db, seq, id_turma, matricula))

GET_planos_id(codigo_plano) ==
    Serve("buscar_plano", [codigo_plano |-> codigo_plano],
          buscar_plano(db, seq, codigo_plano))

GET_alunos_id(matricula) ==
    Serve("buscar_aluno", [matricula |-> matricula], buscar_aluno(db, seq, matricula))

GET_bioimpedancia_id(matricula) ==
    Serve("buscar_bioimpedancia", [matricula |-> matricula],
          buscar_bioimpedancia(db, seq, matricula))

GET_instrutores_id(cref) ==
    Serve("buscar_instrutor", [cref |-> cref], buscar_instrutor(db, seq, cref))

GET_turmas_id(id_turma) ==
    Serve("buscar_turma", [id_turma |-> id_turma], buscar_turma(db, seq, id_turma))

GET_planos(skip, limit) ==
    Serve("listar_planos", [skip |-> skip, limit |-> limit],
          listar_planos(db, seq, skip, limit))

GET_alunos(skip, limit) ==
    Serve("listar_alunos", [skip |-> skip, limit |-> limit],
          listar_alunos(db, seq, skip, limit))

GET_instrutores(skip, limit) ==
    Serve("listar_instrutores", [skip |-> skip, limit |-> limit],
          listar_instrutores(db, seq, skip, limit))

GET_turmas(skip, limit) ==
    Serve("listar_turmas", [skip |-> skip, limit |-> limit],
          listar_turmas(db, seq, skip, limit))

GET_relatorios_alunos(skip, limit) ==
    Serve("relatorio_alunos", [skip |-> skip, limit |-> limit],
          relatorio_alunos(db, seq, hoje, skip, limit))

\* A database client calls the stored function: SELECT atualizar_plano_aluno(m, p).
\* An error inside it aborts the statement and changes nothing.
CALL_atualizar_plano_aluno(p_matricula, p_novo_plano) ==
    LET r == atualizar_plano_aluno(db, hoje, p_matricula, p_novo_plano)
    IN  /\ Quiet
        /\ db' = r.db
        /\ last' = Record("atualizar_plano_aluno",
                           [p_matricula |-> p_matricula, p_novo_plano |-> p_novo_plano],
                           IF r.error THEN 1 ELSE 0, r.ret, None)
        /\ batch' = NoBatch
        /\ UNCHANGED <<seq, hoje, tx, abertas>>

\* The interpreter reclaims a connection object that no request refers to
\* any more, and psycopg2 closes the connection then.
Finaliza ==
    /\ Quiet
    /\ abertas # NaoContadas
    /\ abertas > 0
    /\ abertas' = abertas - 1
    /\ UNCHANGED <<db, seq, hoje, last, tx, batch>>

\* A day passes.
Tick ==
    /\ Quiet
    /\ hoje < Hoje0 + MaxTicks
    /\ hoje' = hoje + 1
    /\ UNCHANGED <<db, seq, last, tx, batch, abertas>>

----------------------------------------------------------------------------
(* Request values *)

Opt(S) == {None} \cup {Some(v) : v \in S}

\* Ids a request may name: those a sequence can have given and one beyond.
Ids == 1..(MaxSerial + 1)

\* cpf and telefone are digit strings; the model keeps them as numbers.
Cpfs == {101, 102}

Telefones == {901, 902}

Crefs == 1..MaxSerial

----------------------------------------------------------------------------
(* Spec: the API served one request at a time, from the empty database     *)
(* init_database leaves, with no record of the responses.                  *)

Init == Start(EmptyDatabase, [plano |-> 0, aluno |-> 0, turma |-> 0], NotRecorded)

Contatos == [telefone : Telefones, email : {None}]

PlanoCreates == [nome_plano : {"Basic"}, preco : {50000}, descricao : {None}]

PlanoUpdates == [nome_plano : {None}, preco : Opt({50000}), descricao : {None}]

AlunoCreates ==
    [cpf : Cpfs, nome : {"Ana"}, sexo : {"F"}, data_nascimento : {0},
     data_matricula : {Hoje0}, codigo_plano : Ids, contato : Contatos]

AlunoUpdates ==
    [cpf : {None}, nome : {None}, sexo : {None}, data_nascimento : {None},
     data_matricula : {None}, codigo_plano : Opt(Ids), contato : Opt(Contatos)]

BioCreates ==
    [matricula : Ids, peso : {70500}, altura : {1750}, tmb : {1800},
     percentual_gordura : {15500}, quantidade_agua : {60200}]

InstrutorCreates ==
    [cref : Crefs, cpf : Cpfs, nome : {"Bia"}, data_nascimento : {0},
     data_admissao : {Hoje0}, turno : {"Manha"}, contato : Contatos]

InstrutorUpdates ==
    [cpf : {None}, nome : {None}, data_nascimento : {None}, data_admissao : {None},
     turno : {None}, contato : Opt(Contatos)]

TurmaCreates ==
    [nome_atividade : {"Ioga"}, quantidade_vagas : {1}, turno : {"Manha"},
     cref : Crefs \cup {MaxSerial + 1}]

TurmaUpdates ==
    [nome_atividade : {None}, quantidade_vagas : {None}, turno : {None},
     cref : Opt(Crefs \cup {MaxSerial + 1})]

Next ==
    \/ \E plano \in PlanoCreates : POST_planos(plano)
    \/ \E id \in Ids, plano \in PlanoUpdates : PUT_planos(id, plano)
    \/ \E id \in Ids : DELETE_planos(id)
    \/ \E aluno \in AlunoCreates : POST_alunos(aluno)
    \/ \E id \in Ids, aluno \in AlunoUpdates : PUT_alunos(id, aluno)
    \/ \E id \in Ids : DELETE_alunos(id)
    \/ \E bio \in BioCreates : POST_bioimpedancia(bio)
    \/ \E bio \in BioCreates : PUT_bioimpedancia(bio.matricula, bio)
    \/ \E id \in Ids : DELETE_bioimpedancia(id)
    \/ \E instrutor \in InstrutorCreates : POST_instrutores(instrutor)
    \/ \E id \in Crefs, instrutor \in InstrutorUpdates : PUT_instrutores(id, instrutor)
    \/ \E id \in Crefs : DELETE_instrutores(id)
    \/ \E turma \in TurmaCreates : POST_turmas(turma)
    \/ \E id \in Ids, turma \in TurmaUpdates : PUT_turmas(id, turma)
    \/ \E id \in Ids : DELETE_turmas(id)
    \/ \E id \in Ids, m \in Ids : POST_turmas_alunos(id, m)
    \/ \E id \in Ids, m \in Ids : DELETE_turmas_alunos(id, m)

Spec == Init /\ [][Next]_vars

\* C8: no orphan rows.  Every student references an existing plan, every
\* student contact and bioimpedance row an existing student, every
\* instructor contact an existing instructor, every class an existing
\* instructor, and every enrolment an existing class and an existing student.
NoOrphans ==
    /\ \A m \in DOMAIN db.aluno : db.aluno[m].codigo_plano \in DOMAIN db.plano
    /\ \A t \in DOMAIN db.contato_aluno :
           db.contato_aluno[t].matricula \in DOMAIN db.aluno
    /\ \A m \in DOMAIN db.bioimpedancia : m \in DOMAIN db.aluno
    /\ \A t \in DOMAIN db.contato_instrutor :
           db.contato_instrutor[t].cref \in DOMAIN db.instrutor
    /\ \A t \in DOMAIN db.turma : db.turma[t].cref \in DOMAIN db.instrutor
    /\ \A e \in db.turma_instrutor_aluno :
           e[1] \in DOMAIN db.turma /\ e[2] \in DOMAIN db.aluno

\* A state where every reference of NoOrphans is in use: all eight tables
\* hold a row.
TodasAsTabelasPovoadas ==
    /\ \A t \in {"plano", "aluno", "contato_aluno", "bioimpedancia", "instrutor",
                 "contato_instrutor", "turma"} : DOMAIN db[t] # {}
    /\ db.turma_instrutor_aluno # {}

----------------------------------------------------------------------------
(* Populated starts.  Each is the state the API reaches from the empty     *)
(* database by the requests that set a gym up, with the responses of the   *)
(* requests that follow kept in last.                                      *)

AlunoPadrao(m, codigo_plano) ==
    [cpf |-> 100 + m, nome |-> "Ana", sexo |-> "F", data_nascimento |-> 0,
     data_matricula |-> Hoje0 - 1, codigo_plano |-> codigo_plano,
     contato |-> [telefone |-> 900 + m, email |-> None]]

InstrutorPadrao(cref) ==
    [cref |-> cref, cpf |-> 200 + cref, nome |-> "Bia", data_nascimento |-> 0,
     data_admissao |-> Hoje0 - 1, turno |-> "Manha",
     contato |-> [telefone |-> 800 + cref, email |-> None]]

\* POST /alunos n times after the requests that gave r: student m on plan plano_de[m].
RECURSIVE ComAlunos(_, _, _)
ComAlunos(r, n, plano_de) ==
    IF n = 0 THEN r
    ELSE LET p == ComAlunos(r, n - 1, plano_de)
         IN  criar_aluno(p.db, p.seq, AlunoPadrao(n, plano_de[n]))

\* One plan, n students on it, one instructor and one class of capacity vagas.
Academia(n, vagas) ==
    LET r0 == criar_plano(EmptyDatabase, [plano |-> 0, aluno |-> 0, turma |-> 0],
                          [nome_plano |-> "Basic", preco |-> 50000, descricao |-> None])
        r1 == ComAlunos(r0, n, [m \in 1..n |-> 1])
        r2 == criar_instrutor(r1.db, r1.seq, Hoje0, InstrutorPadrao(1))
    IN  criar_turma(r2.db, r2.seq,
                    [nome_atividade |-> "Ioga", quantidade_vagas |-> vagas,
                     turno |-> "Manha", cref |-> 1])

----------------------------------------------------------------------------
(* SpecTurma: enrol, unenrol and class update, one request at a time, on a *)
(* gym with one class.                                                     *)

InitTurma ==
    \E vagas \in 1..NumAlunos :
        Start(Academia(NumAlunos, vagas).db, Academia(NumAlunos, vagas).seq, NoRequest)

\* The ids requests name: the rows that exist and one that does not.
AlunoIds == 1..(NumAlunos + 1)

TurmaIds == {1, 2}

VagasUpdates ==
    [nome_atividade : {None}, quantidade_vagas : Opt(1..NumAlunos), turno : {None},
     cref : {None}]

NextTurma ==
    \/ \E id \in TurmaIds, m \in AlunoIds : POST_turmas_alunos(id, m)
    \/ \E id \in TurmaIds, m \in AlunoIds : DELETE_turmas_alunos(id, m)
    \/ \E id \in TurmaIds, turma \in VagasUpdates : PUT_turmas(id, turma)

SpecTurma == InitTurma /\ [][NextTurma]_vars

\* C1: for every class, the number of enrolment rows is at most the class's
\* current quantidade_vagas.
VagasRespeitadas ==
    \A t \in DOMAIN db.turma : Matriculados(db, t) <= db.turma[t].quantidade_vagas

\* C3: an enrol request served alone, for a class and a student that exist
\* and a pair not yet enrolled: when the class has as many enrolments as
\* seats it fails and the enrolment table is unchanged, otherwise it succeeds
\* and exactly the row (class, student) is added.
EnrollSerial ==
    [][last'.op = "matricular_aluno_turma" =>
         LET t == last'.req.id_turma
             m == last'.req.matricula
         IN  (/\ t \in DOMAIN db.turma
              /\ m \in DOMAIN db.aluno
              /\ <<t, m>> \notin db.turma_instrutor_aluno)
             => IF Matriculados(db, t) >= db.turma[t].quantidade_vagas
                THEN /\ last'.status = 400
                     /\ db'.turma_instrutor_aluno = db.turma_instrutor_aluno
                ELSE /\ last'.status = 201
                     /\ db'.turma_instrutor_aluno =
                            db.turma_instrutor_aluno \cup {<<t, m>>}]_vars

\* An enrol request for a full class was refused.
EnrollRefused ==
    /\ last.op = "matricular_aluno_turma"
    /\ last.status = 400
    /\ last.detail = "Turma sem vagas disponiveis"
    /\ last.req.id_turma \in DOMAIN db.turma
    /\ last.req.matricula \in DOMAIN db.aluno
    /\ <<last.req.id_turma, last.req.matricula>> \notin db.turma_instrutor_aluno
    /\ Matriculados(db, last.req.id_turma) =
           db.turma[last.req.id_turma].quantidade_vagas

----------------------------------------------------------------------------
(* Concurrent enrolment.  Each worker serves matricular_aluno_turma on its *)
(* own connection, and the statements of the workers interleave.  The     *)
(* connections run at PostgreSQL's default READ COMMITTED: a statement     *)
(* sees the rows committed before it starts; the rows another transaction  *)
(* has inserted and not committed are invisible to it, to the SELECT of    *)
(* create_matricula_turma and to the SELECTs of the trigger alike.  The    *)
(* primary key is the one thing that sees them: an INSERT of a key that    *)
(* another transaction has inserted and not committed waits for that       *)
(* transaction to end.                                                     *)

\* NumWorkers enrol requests for class id_turma arrive together, worker w
\* with student alunos[w]; batch keeps the free seats of the class then.
Launch(id_turma, alunos) ==
    /\ Quiet
    /\ id_turma \in DOMAIN db.turma
    /\ \A w \in Workers :
           /\ alunos[w] \in DOMAIN db.aluno
           /\ <<id_turma, alunos[w]>> \notin db.turma_instrutor_aluno
    /\ \A v, w \in Workers : v # w => alunos[v] # alunos[w]
    /\ tx' = [w \in Workers |->
                 [pc |-> "read", id_turma |-> id_turma, matricula |-> alunos[w],
                  status |-> 0, detail |-> ""]]
    /\ batch' = [id_turma |-> id_turma,
                 livres   |-> db.turma[id_turma].quantidade_vagas
                                  - Matriculados(db, id_turma),
                 n        |-> NumWorkers]
    /\ abertas' = Deixa(abertas, NumWorkers)
    /\ UNCHANGED <<db, seq, hoje, last>>

\* Worker w runs the query_vagas SELECT of create_matricula_turma and the
\* tests on its row.
ReadVagas(w) ==
    /\ tx[w].pc = "read"
    /\ LET result == execute_query(get_connection(db), query_vagas(db, tx[w].id_turma))
       IN  tx' = [tx EXCEPT ![w] =
                    IF result.rows = <<>>
                    THEN [@ EXCEPT !.pc = "done", !.status = 400,
                                   !.detail = "Turma nao encontrada"]
                    ELSE IF SemVagas(result.rows[1])
                    THEN [@ EXCEPT !.pc = "done", !.status = 400,
                                   !.detail = "Turma sem vagas disponiveis"]
                    ELSE [@ EXCEPT !.pc = "insert"]]
    /\ UNCHANGED <<db, seq, hoje, last, batch, abertas>>

\* Worker w runs the INSERT: the trigger and the constraints see the
\* committed rows; the new row stays in w's transaction.  While another
\* worker holds an uncommitted row of the same key, the INSERT waits.
InsertRow(w) ==
    /\ tx[w].pc = "insert"
    /\ \A v \in Workers \ {w} :
           ~(/\ tx[v].pc = "commit"
             /\ tx[v].id_turma = tx[w].id_turma
             /\ tx[v].matricula = tx[w].matricula)
    /\ LET result == execute_query(get_connection(db),
                         InsertMatricula(db, tx[w].id_turma, tx[w].matricula))
       IN  tx' = [tx EXCEPT ![w] =
                    IF result.raised
                    THEN [@ EXCEPT !.pc = "done", !.status = 400, !.detail = result.detail]
                    ELSE [@ EXCEPT !.pc = "commit"]]
    /\ UNCHANGED <<db, seq, hoje, last, batch, abertas>>

\* Worker w runs conn.commit() and answers 201.
Commit(w) ==
    /\ tx[w].pc = "commit"
    /\ db' = [db EXCEPT !.turma_instrutor_aluno =
                            @ \cup {<<tx[w].id_turma, tx[w].matricula>>}]
    /\ tx' = [tx EXCEPT ![w] = [@ EXCEPT !.pc = "done", !.status = 201]]
    /\ UNCHANGED <<seq, hoje, last, batch, abertas>>

AllDone == \A w \in Workers : tx[w].pc = "done"

\* The responses of the batch have gone out; the workers are free again.
Collect ==
    /\ AllDone
    /\ tx' = [w \in Workers |-> IdleTx]
    /\ batch' = NoBatch
    /\ UNCHANGED <<db, seq, hoje, last, abertas>>

InitConc ==
    \E vagas \in 1..NumWorkers :
        Start(Academia(NumWorkers + 1, vagas).db, Academia(NumWorkers + 1, vagas).seq,
              NotRecorded)

ConcAlunoIds == 1..(NumWorkers + 1)

NextConc ==
    \/ \E alunos \in [Workers -> ConcAlunoIds] : Launch(1, alunos)
    \/ \E w \in Workers : ReadVagas(w)
    \/ \E w \in Workers : InsertRow(w)
    \/ \E w \in Workers : Commit(w)
    \/ Collect
    \/ \E m \in ConcAlunoIds : DELETE_turmas_alunos(1, m)

SpecConc == InitConc /\ [][NextConc]_vars

Sucessos == {w \in Workers : tx[w].pc = "done" /\ tx[w].status = 201}

Falhas == {w \in Workers : tx[w].pc = "done" /\ tx[w].status = 400}

\* C2: when the requests of a batch launched against a class with k free
\* seats, k less than the number of requests, have all answered, exactly k
\* have succeeded and the others have failed.
ConcurrentEnrollExact ==
    (AllDone /\ 0 <= batch.livres /\ batch.livres < batch.n)
    => /\ Cardinality(Sucessos) = batch.livres
       /\ Cardinality(Falhas) = batch.n - batch.livres

----------------------------------------------------------------------------
(* SpecPlanos: plan changes.  Three plans, the third at the price of the   *)
(* first; the students hold the first or the second.  A database client    *)
(* calls the stored function, the API serves PUT /alunos/{matricula}, and  *)
(* days pass.                                                              *)

\* Plans 1 (50.00), 2 (100.00) and 3 (50.00), and n students, student m on
\* plan plano_de[m].
Planos(n, plano_de) ==
    LET r1 == criar_plano(EmptyDatabase, [plano |-> 0, aluno |-> 0, turma |-> 0],
                          [nome_plano |-> "Basic", preco |-> 50000, descricao |-> None])
        r2 == criar_plano(r1.db, r1.seq,
                          [nome_plano |-> "Premium", preco |-> 100000,
                           descricao |-> Some("Acesso completo")])
        r3 == criar_plano(r2.db, r2.seq,
                          [nome_plano |-> "Outro", preco |-> 50000, descricao |-> None])
    IN  ComAlunos(r3, n, plano_de)

InitPlanos ==
    \E plano_de \in [1..NumAlunos -> {1, 2}] :
        Start(Planos(NumAlunos, plano_de).db, Planos(NumAlunos, plano_de).seq, NoRequest)

\* The plan ids requests name: the three plans and one that does not exist.
PlanoIds == 1..4

PlanoDeAlunoUpdates ==
    [cpf : {None}, nome : {None}, sexo : {None}, data_nascimento : {None},
     data_matricula : {None}, codigo_plano : Opt(PlanoIds), contato : {None}]

NextPlanos ==
    \/ \E m \in AlunoIds, p \in PlanoIds : CALL_atualizar_plano_aluno(m, p)
    \/ \E m \in AlunoIds, aluno \in PlanoDeAlunoUpdates : PUT_alunos(m, aluno)
    \/ Tick

SpecPlanos == InitPlanos /\ [][NextPlanos]_vars

\* The step is a call of the stored function (a day passing keeps last).
ChangePlanStep == last'.op = "atualizar_plano_aluno" /\ hoje' = hoje

\* C4: the stored function, called for a student and a new plan that both
\* exist, changes the student's plan exactly when the new plan's price is
\* greater than the current plan's; otherwise (equal price included) it
\* returns the policy error and the student row is unchanged.
ChangePlanPolicy ==
    [][ChangePlanStep =>
         LET m == last'.req.p_matricula
             p == last'.req.p_novo_plano
         IN  (m \in DOMAIN db.aluno /\ p \in DOMAIN db.plano)
             => IF db.plano[p].preco > db.plano[db.aluno[m].codigo_plano].preco
                THEN /\ db'.aluno[m].codigo_plano = p
                     /\ db'.aluno[m].codigo_plano # db.aluno[m].codigo_plano
                     /\ last'.detail = "Plano alterado com sucesso!"
                ELSE /\ db'.aluno[m] = db.aluno[m]
                     /\ last'.detail =
                            "Erro: O novo plano deve ser mais caro que o atual!"]_vars

\* A change to another plan of the same price was refused.
EqualPriceRefused ==
    /\ last.op = "atualizar_plano_aluno"
    /\ last.detail = "Erro: O novo plano deve ser mais caro que o atual!"
    /\ last.req.p_matricula \in DOMAIN db.aluno
    /\ last.req.p_novo_plano \in DOMAIN db.plano
    /\ LET atual == db.aluno[last.req.p_matricula].codigo_plano
       IN  /\ atual # last.req.p_novo_plano
           /\ db.plano[atual].preco = db.plano[last.req.p_novo_plano].preco

\* C5: any step that changes the plan id of a student moves the student to
\* a plan of strictly greater price and sets data_matricula to the current date.
PlanOnlyGoesUp ==
    [][\A m \in DOMAIN db.aluno \cap DOMAIN db'.aluno :
          db'.aluno[m].codigo_plano # db.aluno[m].codigo_plano
          => /\ db'.plano[db'.aluno[m].codigo_plano].preco
                    > db.plano[db.aluno[m].codigo_plano].preco
             /\ db'.aluno[m].data_matricula = hoje]_vars

\* C6: after a call of the stored function that succeeds for an existing
\* student, the student's plan is the new plan and data_matricula is the
\* current date; the student's other columns and every other student row
\* are as before.
ChangePlanFrame ==
    [][(/\ ChangePlanStep
        /\ last'.detail = "Plano alterado com sucesso!"
        /\ last'.req.p_matricula \in DOMAIN db.aluno)
       => LET m == last'.req.p_matricula
          IN  /\ DOMAIN db'.aluno = DOMAIN db.aluno
              /\ db'.aluno[m] = [db.aluno[m] EXCEPT
                                    !.codigo_plano = last'.req.p_novo_plano,
                                    !.data_matricula = hoje]
              /\ \A o \in DOMAIN db.aluno \ {m} : db'.aluno[o] = db.aluno[o]]_vars

\* A plan change succeeded on a later day than the start, next to a student
\* that keeps the date it was created with.
PlanChangedToday ==
    /\ last.op = "atualizar_plano_aluno"
    /\ last.detail = "Plano alterado com sucesso!"
    /\ hoje > Hoje0
    /\ last.req.p_matricula \in DOMAIN db.aluno
    /\ db.aluno[last.req.p_matricula].codigo_plano = last.req.p_novo_plano
    /\ db.aluno[last.req.p_matricula].data_matricula = hoje
    /\ \E o \in DOMAIN db.aluno : db.aluno[o].data_matricula = Hoje0 - 1

----------------------------------------------------------------------------
(* SpecCascata: plans are deleted under students that have measurements    *)
(* and enrolments.                                                         *)

BioPadrao(m) ==
    [matricula |-> m, peso |-> 70500, altura |-> 1750, tmb |-> 1800,
     percentual_gordura |-> 15500, quantidade_agua |-> 60200]

\* The three plans and n students of Planos, one instructor and one class
\* with a seat for every student.
Ginasio(n, plano_de) ==
    LET r1 == Planos(n, plano_de)
        r2 == criar_instrutor(r1.db, r1.seq, Hoje0, InstrutorPadrao(1))
    IN  criar_turma(r2.db, r2.seq,
                    [nome_atividade |-> "Ioga", quantidade_vagas |-> n,
                     turno |-> "Manha", cref |-> 1])

InitCascata ==
    \E plano_de \in [1..NumAlunos -> {1, 2}] :
        Start(Ginasio(NumAlunos, plano_de).db, Ginasio(NumAlunos, plano_de).seq,
              NoRequest)

NextCascata ==
    \/ \E m \in AlunoIds : POST_bioimpedancia(BioPadrao(m))
    \/ \E m \in AlunoIds : POST_turmas_alunos(1, m)
    \/ \E p \in PlanoIds : DELETE_planos(p)

SpecCascata == InitCascata /\ [][NextCascata]_vars

\* The students of database d that hold plan p.
AlunosDoPlano(d, p) == {m \in DOMAIN d.aluno : d.aluno[m].codigo_plano = p}

\* C7: DELETE /planos/{p} removes the plan, every student that holds it and
\* those students' contact, bioimpedance and enrolment rows; the students of
\* other plans and their contact, bioimpedance and enrolment rows stay as
\* they were.
DeletePlanCascades ==
    [][last'.op = "deletar_plano" =>
         LET p    == last'.req.codigo_plano
             gone == AlunosDoPlano(db, p)
             stay == DOMAIN db.aluno \ gone
         IN  /\ p \notin DOMAIN db'.plano
             /\ DOMAIN db'.aluno = stay
             /\ \A t \in DOMAIN db'.contato_aluno : db'.contato_aluno[t].matricula \in stay
             /\ DOMAIN db'.bioimpedancia \cap gone = {}
             /\ \A e \in db'.turma_instrutor_aluno : e[2] \in stay
             /\ \A m \in stay : db'.aluno[m] = db.aluno[m]
             /\ \A t \in DOMAIN db.contato_aluno :
                    db.contato_aluno[t].matricula \in stay
                    => /\ t \in DOMAIN db'.contato_aluno
                       /\ db'.contato_aluno[t] = db.contato_aluno[t]
             /\ \A m \in DOMAIN db.bioimpedancia \cap stay :
                    /\ m \in DOMAIN db'.bioimpedancia
                    /\ db'.bioimpedancia[m] = db.bioimpedancia[m]
             /\ \A e \in db.turma_instrutor_aluno :
                    e[2] \in stay => e \in db'.turma_instrutor_aluno]_vars

\* A plan was deleted and took students with it, next to a student of
\* another plan that keeps its contact, measurement and enrolment.
PlanDeletedWithStudents ==
    /\ last.op = "deletar_plano"
    /\ last.status = 204
    /\ Cardinality(DOMAIN db.aluno) < NumAlunos
    /\ \E m \in DOMAIN db.aluno :
           /\ m \in DOMAIN db.bioimpedancia
           /\ <<1, m>> \in db.turma_instrutor_aluno
           /\ \E t \in DOMAIN db.contato_aluno : db.contato_aluno[t].matricula = m

----------------------------------------------------------------------------
(* SpecContatos: requests of two statements whose second statement can     *)
(* fail, on the gym of Academia: student creation, instructor creation and *)
(* student update, with telephones that are free and telephones that are   *)
(* taken.                                                                  *)

InitContatos ==
    Start(Academia(NumAlunos, 1).db, Academia(NumAlunos, 1).seq, NoRequest)

NovosAlunos ==
    [cpf : {101, 100 + NumAlunos + 1}, nome : {"Bia"}, sexo : {"M"},
     data_nascimento : {0}, data_matricula : {Hoje0}, codigo_plano : {1, 2},
     contato : [telefone : {901, 900 + NumAlunos + 1}, email : {None}]]

NovosInstrutores ==
    [cref : {1, 2}, cpf : {201, 202}, nome : {"Ana"},
     data_nascimento : {0, Hoje0 - 1}, data_admissao : {Hoje0}, turno : {"Tarde"},
     contato : [telefone : {801, 802}, email : {None}]]

NomeEContatoUpdates ==
    [cpf : {None}, nome : Opt({"Bia"}), sexo : {None}, data_nascimento : {None},
     data_matricula : {None}, codigo_plano : {None},
     contato : Opt([telefone : {900 + m : m \in 1..NumAlunos}, email : {None}])]

NextContatos ==
    \/ \E aluno \in NovosAlunos : POST_alunos_ate(NumAlunos + MaxSerial, aluno)
    \/ \E instrutor \in NovosInstrutores : POST_instrutores(instrutor)
    \/ \E m \in AlunoIds, aluno \in NomeEContatoUpdates : PUT_alunos(m, aluno)

SpecContatos == InitContatos /\ [][NextContatos]_vars

\* The student insert of POST /alunos with body a would succeed on d and the
\* contact insert after it would fail: the telephone is taken.
ContatoDeAlunoFalha(d, a) ==
    /\ \A m \in DOMAIN d.aluno : d.aluno[m].cpf # a.cpf
    /\ a.codigo_plano \in DOMAIN d.plano
    /\ a.contato.telefone \in DOMAIN d.contato_aluno

\* C9: a request of two statements whose first statement succeeds and whose
\* second fails answers with an error and leaves the database as it was:
\* POST /alunos and POST /instrutores with a telephone that is taken, and
\* PUT /alunos/{m} that changes the student and then asks for a telephone
\* another student holds.
NoPartialWrite ==
    [][/\ (last'.op = "criar_aluno" /\ ContatoDeAlunoFalha(db, last'.req))
          => (last'.status = 400 /\ db' = db)
       /\ (/\ last'.op = "criar_instrutor"
           /\ last'.req.cref \notin DOMAIN db.instrutor
           /\ \A c \in DOMAIN db.instrutor : db.instrutor[c].cpf # last'.req.cpf
           /\ MaiorDeIdade(hoje, last'.req.data_nascimento)
           /\ last'.req.contato.telefone \in DOMAIN db.contato_instrutor)
          => (last'.status = 400 /\ db' = db)
       /\ (/\ last'.op = "atualizar_aluno"
           /\ last'.req.matricula \in DOMAIN db.aluno
           /\ last'.req.aluno.nome # None
           /\ last'.req.aluno.contato # None
           /\ \E t \in DOMAIN db.contato_aluno :
                  /\ t = Val(last'.req.aluno.contato).telefone
                  /\ db.contato_aluno[t].matricula # last'.req.matricula)
          => (last'.status = 400 /\ db' = db)]_vars

\* A student creation was refused at its contact insert, after its student
\* insert had taken a value of the sequence.
StudentContactRefused ==
    /\ last.op = "criar_aluno"
    /\ last.status = 400
    /\ ContatoDeAlunoFalha(db, last.req)
    /\ seq.aluno > NumAlunos
    /\ DOMAIN db.aluno = 1..NumAlunos

----------------------------------------------------------------------------
(* SpecUpdates: one update request, of any of the five PUT routes and with *)
(* any choice of supplied and absent fields, on a gym where every table    *)
(* holds rows.                                                             *)

\* POST /bioimpedancia for the students 1..n after the requests that gave r.
RECURSIVE ComBio(_, _)
ComBio(r, n) ==
    IF n = 0 THEN r
    ELSE LET p == ComBio(r, n - 1)
         IN  criar_bioimpedancia(p.db, p.seq, BioPadrao(n))

\* The gym of Ginasio with a second instructor and a measurement per student.
GinasioCompleto(n, plano_de) ==
    LET r1 == Ginasio(n, plano_de)
        r2 == criar_instrutor(r1.db, r1.seq, Hoje0, InstrutorPadrao(2))
    IN  ComBio(r2, n)

InitUpdates ==
    \E plano_de \in [1..NumAlunos -> {1, 2}] :
        Start(GinasioCompleto(NumAlunos, plano_de).db,
              GinasioCompleto(NumAlunos, plano_de).seq, NoRequest)

PlanoPartials ==
    [nome_plano : Opt({"Gold"}), preco : Opt({75004, 75005}), descricao : Opt({"Nova"})]

AlunoPartials ==
    [cpf : Opt({100 + NumAlunos, 100 + NumAlunos + 1}), nome : Opt({"Bia"}),
     sexo : Opt({"M"}), data_nascimento : Opt({1}), data_matricula : Opt({Hoje0}),
     codigo_plano : Opt({3, 4}),
     contato : Opt([telefone : {900 + NumAlunos, 900 + NumAlunos + 1},
                    email : Opt({"ana@gim"})])]

InstrutorPartials ==
    [cpf : Opt({202, 203}), nome : Opt({"Ana"}), data_nascimento : Opt({1, Hoje0}),
     data_admissao : Opt({Hoje0}), turno : Opt({"Tarde"}),
     contato : Opt([telefone : {802, 803}, email : Opt({"bia@gim"})])]

TurmaPartials ==
    [nome_atividade : Opt({"Pilates"}), quantidade_vagas : Opt({0, NumAlunos + 3}),
     turno : Opt({"Tarde"}), cref : Opt({2, 3})]

BioUpdates ==
    [matricula : AlunoIds, peso : {80004, 80005}, altura : {1800}, tmb : {1900},
     percentual_gordura : {20000}, quantidade_agua : {55000}]

NextUpdates ==
    \/ \E id \in PlanoIds, plano \in PlanoPartials :
           last = NoRequest /\ PUT_planos(id, plano)
    \/ \E m \in AlunoIds, aluno \in AlunoPartials :
           last = NoRequest /\ PUT_alunos(m, aluno)
    \/ \E c \in 1..3, instrutor \in InstrutorPartials :
           last = NoRequest /\ PUT_instrutores(c, instrutor)
    \/ \E id \in TurmaIds, turma \in TurmaPartials :
           last = NoRequest /\ PUT_turmas(id, turma)
    \/ \E bio \in BioUpdates :
           last = NoRequest /\ PUT_bioimpedancia(bio.matricula, bio)

SpecUpdates == InitUpdates /\ [][NextUpdates]_vars

\* Row old with the supplied fields of request u written over it.
Merge(old, u) == [f \in DOMAIN old |-> IF u[f] # None THEN Val(u[f]) ELSE old[f]]

\* The same for a plan row: preco is held to two decimals, descricao may be NULL.
MergePlano(old, u) ==
    [nome_plano |-> IF u.nome_plano # None THEN Val(u.nome_plano) ELSE old.nome_plano,
     preco      |-> IF u.preco # None THEN ToNumeric2(Val(u.preco)) ELSE old.preco,
     descricao  |-> IF u.descricao # None THEN u.descricao ELSE old.descricao]

\* Contact table tab with the contact of owner (column campo) written from c:
\* the telefone of c, and the email of c when c has one.
MergeContato(tab, campo, owner, c) ==
    LET t0 == CHOOSE t \in DOMAIN tab : tab[t][campo] = owner
    IN  Put(Drop(tab, {t0}), c.telefone,
            [tab[t0] EXCEPT !.email = IF c.email # None THEN c.email ELSE @])

\* The measurement row a bioimpedance request writes.
BioEscrita(bio) ==
    [peso |-> ToNumeric2(bio.peso), altura |-> ToNumeric2(bio.altura), tmb |-> bio.tmb,
     percentual_gordura |-> ToNumeric2(bio.percentual_gordura),
     quantidade_agua |-> ToNumeric2(bio.quantidade_agua)]

\* The request of the step did not fail at a statement.
Wrote == last'.detail # "Erro ao executar query"

Ausente(u) == \A f \in DOMAIN u : u[f] = None

\* C11: an update request in which every field is absent writes nothing: the
\* database after it is the database before it, and the lookup of the entity
\* answers after it what it answered before it, for plans, students,
\* instructors and classes.  No route passes absent fields to
\* update_bioimpedancia; called with every field absent it issues no
\* statement and leaves its connection as it was.
NoOpUpdate ==
    [][LET r == last'.req
       IN  /\ (last'.op = "atualizar_plano" /\ Ausente(r.plano))
              => /\ db' = db
                 /\ buscar_plano(db', seq', r.codigo_plano)
                        = buscar_plano(db, seq, r.codigo_plano)
           /\ (last'.op = "atualizar_aluno" /\ Ausente(r.aluno))
              => /\ db' = db
                 /\ buscar_aluno(db', seq', r.matricula)
                        = buscar_aluno(db, seq, r.matricula)
           /\ (last'.op = "atualizar_instrutor" /\ Ausente(r.instrutor))
              => /\ db' = db
                 /\ buscar_instrutor(db', seq', r.cref) = buscar_instrutor(db, seq, r.cref)
           /\ (last'.op = "atualizar_turma" /\ Ausente(r.turma))
              => /\ db' = db
                 /\ buscar_turma(db', seq', r.id_turma) = buscar_turma(db, seq, r.id_turma)
           /\ \A m \in AlunoIds :
                  update_bioimpedancia(get_connection(db), m, None, None, None, None, None)
                      = Returned(get_connection(db), <<>>)]_vars

\* An update with every field absent was served for a plan that has a
\* description, and the plan is as it was created.
NoOpUpdateServed ==
    /\ last.op = "atualizar_plano"
    /\ Ausente(last.req.plano)
    /\ last.req.codigo_plano = 2
    /\ db.plano[2] = [nome_plano |-> "Premium", preco |-> 10000,
                      descricao |-> Some("Acesso completo")]

----------------------------------------------------------------------------
(* SpecLotada: enrol and unenrol, one request at a time, on a gym whose    *)
(* class starts full: as many students enrolled as it has seats, next to   *)
(* a student that is not enrolled.  No request changes the capacity.       *)

\* POST /turmas/1/alunos/{m} for the students 1..n after the requests that gave r.
RECURSIVE ComMatriculas(_, _)
ComMatriculas(r, n) ==
    IF n = 0 THEN r
    ELSE LET p == ComMatriculas(r, n - 1)
         IN  matricular_aluno_turma(p.db, p.seq, 1, n)

\* The gym of Academia with a student more than NumAlunos, and the class of
\* capacity vagas filled by the students 1..vagas.
Lotada(vagas) == ComMatriculas(Academia(NumAlunos + 1, vagas), vagas)

InitLotada ==
    \E vagas \in 1..NumAlunos : Start(Lotada(vagas).db, Lotada(vagas).seq, NoRequest)

\* The students requests name: those that exist and one that does not.
LotadaAlunoIds == 1..(NumAlunos + 2)

NextLotada ==
    \/ \E id \in TurmaIds, m \in LotadaAlunoIds : POST_turmas_alunos(id, m)
    \/ \E id \in TurmaIds, m \in LotadaAlunoIds : DELETE_turmas_alunos(id, m)

SpecLotada == InitLotada /\ [][NextLotada]_vars

\* C12: on a class that has as many enrolments as seats, an enrol request
\* for an existing student that is not enrolled is refused for lack of seats
\* and changes nothing; and once an unenrol request has removed one of the
\* enrolled students of such a class, the enrol request of every existing
\* student that is not enrolled succeeds and adds exactly its row.
SeatsFreedByUnenroll ==
    [][LET t == last'.req.id_turma
           m == last'.req.matricula
       IN  /\ (/\ last'.op = "matricular_aluno_turma"
               /\ t \in DOMAIN db.turma
               /\ m \in DOMAIN db.aluno
               /\ <<t, m>> \notin db.turma_instrutor_aluno
               /\ Matriculados(db, t) = db.turma[t].quantidade_vagas)
              => /\ last'.status = 400
                 /\ last'.detail = "Turma sem vagas disponiveis"
                 /\ db' = db
           /\ (/\ last'.op = "remover_aluno_turma"
               /\ <<t, m>> \in db.turma_instrutor_aluno
               /\ Matriculados(db, t) = db.turma[t].quantidade_vagas)
              => \A b \in DOMAIN db'.aluno :
                     <<t, b>> \notin db'.turma_instrutor_aluno
                     => LET r == matricular_aluno_turma(db', seq', t, b)
                        IN  /\ r.status = 201
                            /\ r.db = [db' EXCEPT !.turma_instrutor_aluno =
                                                      @ \cup {<<t, b>>}]]_vars

\* The student that was not enrolled when the class was full has been
\* enrolled, and the class is full again: a seat had been freed.
SeatTakenAfterUnenroll ==
    /\ last.op = "matricular_aluno_turma"
    /\ last.status = 201
    /\ last.req = [id_turma |-> 1, matricula |-> NumAlunos + 1]
    /\ <<1, NumAlunos + 1>> \in db.turma_instrutor_aluno
    /\ Matriculados(db, 1) = db.turma[1].quantidade_vagas

\* C15: an enrol request that names a class that does not exist answers 400
\* with the detail "Turma nao encontrada", which is not the detail of a
\* refusal for lack of seats, and leaves the database as it was; a refusal
\* of an enrol request for a class that exists never carries that detail.
EnrollNoClass ==
    [][last'.op = "matricular_aluno_turma" =>
         IF last'.req.id_turma \notin DOMAIN db.turma
         THEN /\ last'.status = 400
              /\ last'.detail = "Turma nao encontrada"
              /\ last'.detail # "Turma sem vagas disponiveis"
              /\ db' = db
         ELSE last'.detail # "Turma nao encontrada"]_vars

\* An enrol request of an existing student for a class that does not exist
\* was refused with the class-not-found detail.
ClassNotFoundSignal ==
    /\ last.op = "matricular_aluno_turma"
    /\ last.req.id_turma \notin DOMAIN db.turma
    /\ last.req.matricula \in DOMAIN db.aluno
    /\ last.status = 400
    /\ last.detail = "Turma nao encontrada"

\* C16: an unenrol request answers 204 whatever pair it names, and the
\* database after it is the database before it without the enrolment row of
\* that pair: every other enrolment row and every other table is unchanged,
\* and when the pair was not enrolled nothing changes.
UnenrollFrame ==
    [][last'.op = "remover_aluno_turma" =>
         /\ last'.status = 204
         /\ db' = [db EXCEPT !.turma_instrutor_aluno =
                                 @ \ {<<last'.req.id_turma, last'.req.matricula>>}]
         /\ (<<last'.req.id_turma, last'.req.matricula>> \notin db.turma_instrutor_aluno
             => db' = db)
         /\ seq' = seq]_vars

\* A student of a class was unenrolled next to another student that stays
\* enrolled in it.
UnenrolledOneOfTwo ==
    /\ last.op = "remover_aluno_turma"
    /\ last.status = 204
    /\ last.req.id_turma \in DOMAIN db.turma
    /\ last.req.matricula \in DOMAIN db.aluno
    /\ <<last.req.id_turma, last.req.matricula>> \notin db.turma_instrutor_aluno
    /\ Matriculados(db, last.req.id_turma) = db.turma[last.req.id_turma].quantidade_vagas - 1
    /\ Matriculados(db, last.req.id_turma) > 0

----------------------------------------------------------------------------
(* SpecInstrutor: instructors are deleted on a gym in use, where the first *)
(* instructor owns a class with every student enrolled; classes are        *)
(* created, students enrolled and classes looked up.                       *)

\* The gym of GinasioCompleto, all students on plan 1 and enrolled in class 1.
GinasioEmUso == ComMatriculas(GinasioCompleto(NumAlunos, [m \in 1..NumAlunos |-> 1]),
                              NumAlunos)

InitInstrutor == Start(GinasioEmUso.db, GinasioEmUso.seq, NoRequest)

\* The class ids requests name: those the sequence can have given, and one beyond.
MuitasTurmaIds == 1..(MaxSerial + 2)

NovasTurmas ==
    [nome_atividade : {"Pilates"}, quantidade_vagas : {1}, turno : {"Tarde"},
     cref : {1, 2}]

NextInstrutor ==
    \/ \E turma \in NovasTurmas : POST_turmas_ate(1 + MaxSerial, turma)
    \/ \E id \in MuitasTurmaIds, m \in AlunoIds : POST_turmas_alunos(id, m)
    \/ \E c \in 1..3 : DELETE_instrutores(c)
    \/ \E id \in MuitasTurmaIds : GET_turmas_id(id)

SpecInstrutor == InitInstrutor /\ [][NextInstrutor]_vars

\* The classes of database d that instructor c owns.
TurmasDoInstrutor(d, c) == {t \in DOMAIN d.turma : d.turma[t].cref = c}

\* C13: DELETE /instrutores/{c} answers 204 and removes the instructor, every
\* class the instructor owns and every enrolment of those classes, and the
\* lookup of each of those classes on the database it leaves answers 404; a
\* class id that has been given and has no row never gets a row again, and
\* the lookup of such an id answers 404.
DeleteInstructorCascades ==
    [][/\ last'.op = "deletar_instrutor"
          => LET gone == TurmasDoInstrutor(db, last'.req.cref)
             IN  /\ last'.status = 204
                 /\ last'.req.cref \notin DOMAIN db'.instrutor
                 /\ DOMAIN db'.turma = DOMAIN db.turma \ gone
                 /\ db'.turma_instrutor_aluno =
                        {e \in db.turma_instrutor_aluno : e[1] \notin gone}
                 /\ \A t \in gone : buscar_turma(db', seq', t).status = 404
       /\ \A t \in 1..seq.turma : t \notin DOMAIN db.turma => t \notin DOMAIN db'.turma
       /\ (/\ last'.op = "buscar_turma"
           /\ last'.req.id_turma \in 1..seq.turma
           /\ last'.req.id_turma \notin DOMAIN db.turma)
          => last'.status = 404]_vars

\* The class of the first instructor, which held enrolments, was looked up
\* after the instructor was deleted and was not found, while a class of the
\* other instructor is still there.
RemovedClassNotFound ==
    /\ last.op = "buscar_turma"
    /\ last.req.id_turma = 1
    /\ last.status = 404
    /\ 1 \notin DOMAIN db.instrutor
    /\ \A e \in db.turma_instrutor_aluno : e[1] # 1
    /\ TurmasDoInstrutor(db, 2) # {}

----------------------------------------------------------------------------
(* SpecBuscas: lookups by id and deletes, of the five entity types, on the *)
(* gym in use, with ids that have a row, ids that have none and the id 0.  *)

BuscaIds == 0..(NumAlunos + 1)

NextBuscas ==
    \/ \E id \in BuscaIds : GET_planos_id(id)
    \/ \E id \in BuscaIds : GET_alunos_id(id)
    \/ \E id \in BuscaIds : GET_bioimpedancia_id(id)
    \/ \E id \in BuscaIds : GET_instrutores_id(id)
    \/ \E id \in BuscaIds : GET_turmas_id(id)
    \/ \E id \in BuscaIds : DELETE_planos(id)
    \/ \E id \in BuscaIds : DELETE_alunos(id)
    \/ \E id \in BuscaIds : DELETE_bioimpedancia(id)
    \/ \E id \in BuscaIds : DELETE_instrutores(id)
    \/ \E id \in BuscaIds : DELETE_turmas(id)

SpecBuscas == InitInstrutor /\ [][NextBuscas]_vars

\* C17: a lookup by id of a plan, student, bioimpedance record, instructor
\* or class that has no row answers 404.
LookupMissingIs404 ==
    [][LET r == last'.req
       IN  /\ (last'.op = "buscar_plano" /\ r.codigo_plano \notin DOMAIN db.plano)
              => last'.status = 404
           /\ (last'.op = "buscar_aluno" /\ r.matricula \notin DOMAIN db.aluno)
              => last'.status = 404
           /\ (last'.op = "buscar_bioimpedancia" /\ r.matricula \notin DOMAIN db.bioimpedancia)
              => last'.status = 404
           /\ (last'.op = "buscar_instrutor" /\ r.cref \notin DOMAIN db.instrutor)
              => last'.status = 404
           /\ (last'.op = "buscar_turma" /\ r.id_turma \notin DOMAIN db.turma)
              => last'.status = 404]_vars

\* C18: a delete request whose id matches no row leaves the database as it
\* was and answers 404.
DeleteMissingIsNotFound ==
    [][LET r == last'.req
           Missing == \/ last'.op = "deletar_plano" /\ r.codigo_plano \notin DOMAIN db.plano
                      \/ last'.op = "deletar_aluno" /\ r.matricula \notin DOMAIN db.aluno
                      \/ /\ last'.op = "deletar_bioimpedancia"
                         /\ r.matricula \notin DOMAIN db.bioimpedancia
                      \/ last'.op = "deletar_instrutor" /\ r.cref \notin DOMAIN db.instrutor
                      \/ last'.op = "deletar_turma" /\ r.id_turma \notin DOMAIN db.turma
       IN  Missing => (db' = db /\ last'.status = 404)]_vars

----------------------------------------------------------------------------
(* SpecPar: enrol requests for any students, the same student included,    *)
(* arrive together; between the batches enrol and unenrol requests are     *)
(* served one at a time.                                                   *)

\* NumWorkers enrol requests for class id_turma arrive together, worker w
\* with student alunos[w]: the students may repeat and may be enrolled.
LaunchQualquer(id_turma, alunos) ==
    /\ Quiet
    /\ id_turma \in DOMAIN db.turma
    /\ \A w \in Workers : alunos[w] \in DOMAIN db.aluno
    /\ tx' = [w \in Workers |->
                 [pc |-> "read", id_turma |-> id_turma, matricula |-> alunos[w],
                  status |-> 0, detail |-> ""]]
    /\ batch' = [id_turma |-> id_turma,
                 livres   |-> db.turma[id_turma].quantidade_vagas
                                  - Matriculados(db, id_turma),
                 n        |-> NumWorkers]
    /\ abertas' = Deixa(abertas, NumWorkers)
    /\ UNCHANGED <<db, seq, hoje, last>>

InitPar ==
    \E vagas \in 1..NumAlunos :
        Start(Academia(NumAlunos, vagas).db, Academia(NumAlunos, vagas).seq, NoRequest)

NextPar ==
    \/ \E alunos \in [Workers -> 1..NumAlunos] : LaunchQualquer(1, alunos)
    \/ \E w \in Workers : ReadVagas(w)
    \/ \E w \in Workers : InsertRow(w)
    \/ \E w \in Workers : Commit(w)
    \/ Collect
    \/ \E m \in 1..NumAlunos : POST_turmas_alunos(1, m)
    \/ \E m \in 1..NumAlunos : DELETE_turmas_alunos(1, m)

SpecPar == InitPar /\ [][NextPar]_vars

\* The pair worker w was asked to enrol.
ParDe(w) == <<tx[w].id_turma, tx[w].matricula>>

\* C14: an enrol request for a pair that has an enrolment row fails and
\* leaves the enrolment table as it was, served alone or as one of a batch;
\* and of the requests of a batch that name the same pair at most one
\* succeeds.  (The enrolment table of the model is the set of its keys: a
\* second row of a pair would show as a second success.)
OneRowPerPair ==
    [][/\ (/\ tx' = tx
           /\ last'.op = "matricular_aluno_turma"
           /\ <<last'.req.id_turma, last'.req.matricula>> \in db.turma_instrutor_aluno)
          => /\ last'.status = 400
             /\ db'.turma_instrutor_aluno = db.turma_instrutor_aluno
       /\ \A w \in Workers :
              (/\ tx[w].pc \in {"read", "insert", "commit"}
               /\ tx'[w].pc = "done"
               /\ ParDe(w) \in db.turma_instrutor_aluno)
              => /\ tx'[w].status = 400
                 /\ db'.turma_instrutor_aluno = db.turma_instrutor_aluno
       /\ AllDone => \A v, w \in Workers :
                         (v # w /\ ParDe(v) = ParDe(w))
                         => ~(tx[v].status = 201 /\ tx[w].status = 201)]_vars

\* Two requests of a batch named the same pair and both found a free seat:
\* one has enrolled the student, the other has failed at its INSERT.
SamePairRace ==
    /\ AllDone
    /\ \E v, w \in Workers :
           /\ v # w
           /\ ParDe(v) = ParDe(w)
           /\ tx[v].status = 201
           /\ tx[w].status = 400
           /\ tx[w].detail = "Erro ao executar query"
           /\ ParDe(v) \in db.turma_instrutor_aluno
           /\ Matriculados(db, 1) < db.turma[1].quantidade_vagas

----------------------------------------------------------------------------
(* SpecRelatorio: the student report is queried between plan renames, plan *)
(* price changes, student plan changes and student deletions.              *)

RenomeiaOuReprecifica ==
    {[nome_plano |-> Some("Gold"), preco |-> None, descricao |-> None],
     [nome_plano |-> None, preco |-> Some(75000), descricao |-> None]}

NextRelatorio ==
    \/ \E skip \in {0, 1}, limit \in {1, LimitePadrao} : GET_relatorios_alunos(skip, limit)
    \/ \E p \in {1, 3}, plano \in RenomeiaOuReprecifica : PUT_planos(p, plano)
    \/ \E m \in AlunoIds, aluno \in PlanoDeAlunoUpdates : PUT_alunos(m, aluno)
    \/ \E m \in AlunoIds : DELETE_alunos(m)

SpecRelatorio == InitPlanos /\ [][NextRelatorio]_vars

----------------------------------------------------------------------------
(* SpecListas: the listings and the report are queried, with a choice of   *)
(* skip and limit, between renames of students, instructors and classes,   *)
(* on the gym in use with a second class.                                  *)

DuasTurmas ==
    criar_turma(GinasioEmUso.db, GinasioEmUso.seq,
                [nome_atividade |-> "Pilates", quantidade_vagas |-> 1,
                 turno |-> "Tarde", cref |-> 2])

InitListas == Start(DuasTurmas.db, DuasTurmas.seq, NoRequest)

Skips == {-1, 0, 1}

Limits == {1, LimitePadrao}

SoNomeDeAluno ==
    [cpf : {None}, nome : {Some("Ana"), Some("Bia")}, sexo : {None},
     data_nascimento : {None}, data_matricula : {None}, codigo_plano : {None},
     contato : {None}]

SoNomeDeInstrutor ==
    [cpf : {None}, nome : {Some("Ana"), Some("Bia")}, data_nascimento : {None},
     data_admissao : {None}, turno : {None}, contato : {None}]

SoNomeDeTurma ==
    [nome_atividade : {Some("Ioga"), Some("Pilates")}, quantidade_vagas : {None},
     turno : {None}, cref : {None}]

NextListas ==
    \/ \E skip \in Skips, limit \in Limits : GET_planos(skip, limit)
    \/ \E skip \in Skips, limit \in Limits : GET_alunos(skip, limit)
    \/ \E skip \in Skips, limit \in Limits : GET_instrutores(skip, limit)
    \/ \E skip \in Skips, limit \in Limits : GET_turmas(skip, limit)
    \/ \E skip \in Skips, limit \in Limits : GET_relatorios_alunos(skip, limit)
    \/ \E m \in 1..NumAlunos, aluno \in SoNomeDeAluno : PUT_alunos(m, aluno)
    \/ \E c \in {1, 2}, instrutor \in SoNomeDeInstrutor : PUT_instrutores(c, instrutor)
    \/ \E id \in TurmaIds, turma \in SoNomeDeTurma : PUT_turmas(id, turma)

SpecListas == InitListas /\ [][NextListas]_vars

\* The text column campo does not decrease along the rows xs.
NaoDecresce(xs, campo) ==
    \A i \in 1..(Len(xs) - 1) : Ord(xs[i][campo]) <= Ord(xs[i + 1][campo])

\* xs is a run of consecutive rows of all.
Trecho(xs, all) ==
    \E i \in 0..Len(all) : xs = SubSeq(all, i + 1, i + Len(xs))

\* C20: the listing of students and the listing of instructors come in
\* non-decreasing order of nome, the listing of plans in increasing order of
\* codigo_plano, the listing of classes in non-decreasing order of
\* nome_atividade and the report in non-decreasing order of nome_aluno; and
\* what a listing answers for a skip and a limit is a run of consecutive
\* rows of the whole listing in that order.  (A listing writes nothing, so
\* the database right after it is the one it read.)
ListingsSorted ==
    LET body == Val(last.body)
        conn == get_connection(db)
    IN  /\ last.op = "listar_alunos"
           => /\ last.status = 200
              /\ NaoDecresce(body, "nome")
              /\ Trecho(body, Each(aluno_to_dict, read_aluno(conn, None).rows))
        /\ last.op = "listar_instrutores"
           => /\ last.status = 200
              /\ NaoDecresce(body, "nome")
              /\ Trecho(body, Each(instrutor_to_dict, read_instrutor(conn, None).rows))
        /\ last.op = "listar_planos"
           => /\ last.status = 200
              /\ \A i \in 1..(Len(body) - 1) :
                     body[i].codigo_plano < body[i + 1].codigo_plano
              /\ Trecho(body, Each(plano_to_dict, read_plano(conn, None).rows))
        /\ last.op = "listar_turmas"
           => /\ last.status = 200
              /\ NaoDecresce(body, "nome_atividade")
              /\ Trecho(body, Each(TurmaResponse_from_tuple, read_turma(conn, None).rows))
        /\ last.op = "relatorio_alunos"
           => /\ last.status = 200
              /\ NaoDecresce(body, "nome_aluno")
              /\ Trecho(body, Each(RelatorioLinha, get_relatorio_alunos(conn, hoje).rows))

\* The whole listing of students was served with a student of a greater
\* matricula first: the order is that of the names.
SortedListingServed ==
    /\ last.op = "listar_alunos"
    /\ last.status = 200
    /\ last.req = [skip |-> 0, limit |-> LimitePadrao]
    /\ Len(Val(last.body)) = NumAlunos
    /\ Val(last.body)[1].nome = "Ana"
    /\ Val(last.body)[NumAlunos].nome = "Bia"
    /\ Val(last.body)[1].matricula > Val(last.body)[NumAlunos].matricula

----------------------------------------------------------------------------
(* SpecCriar: plans are created, read by id and deleted, from the empty    *)
(* database.  The prices sent have two decimals (50.00) or three (99.999,  *)
(* 0.001).                                                                 *)

InitCriar == Start(EmptyDatabase, [plano |-> 0, aluno |-> 0, turma |-> 0], NoRequest)

NovosPlanos ==
    [nome_plano : {"Basic", "Premium"}, preco : {50000, 99999, 1},
     descricao : Opt({"Acesso completo"})]

NextCriar ==
    \/ \E plano \in NovosPlanos : POST_planos_ate(MaxSerial + 1, plano)
    \/ \E id \in Ids : GET_planos_id(id)
    \/ \E id \in Ids : DELETE_planos(id)

SpecCriar == InitCriar /\ [][NextCriar]_vars

\* The price a NUMERIC(10,2) column gives back for the price x it was sent.
DuasCasas(x) == FromNumeric2(ToNumeric2(x))

\* The step creates a plan: the answer and the read that follows it, which
\* returns the price sent, or the price sent rounded to two decimals.
CriaPlano(arredondado) ==
    last'.op = "criar_plano"
    => LET plano == last'.req
           body  == Val(last'.body)
           lido  == buscar_plano(db', seq', body.codigo_plano)
       IN  /\ last'.status = 201
           /\ body.nome_plano = plano.nome_plano
           /\ body.preco = plano.preco
           /\ body.descricao = plano.descricao
           /\ body.codigo_plano \notin DOMAIN db.plano
           /\ body.codigo_plano \in DOMAIN db'.plano
           /\ lido.status = 200
           /\ Val(lido.body).codigo_plano = body.codigo_plano
           /\ Val(lido.body).nome_plano = plano.nome_plano
           /\ Val(lido.body).descricao = plano.descricao
           /\ Val(lido.body).preco = IF arredondado THEN DuasCasas(plano.preco)
                                     ELSE plano.preco

----------------------------------------------------------------------------
(* SpecTelefones: students and instructors are created, updated (name and  *)
(* contact) and deleted on the gym in use, with telephones that are free   *)
(* and telephones that are taken.                                          *)

MaisInstrutores ==
    [cref : {3}, cpf : {203}, nome : {"Ana"}, data_nascimento : {0},
     data_admissao : {Hoje0}, turno : {"Tarde"},
     contato : [telefone : {801, 803}, email : {None}]]

MaisAlunos ==
    [cpf : {100 + NumAlunos + 1}, nome : {"Bia"}, sexo : {"M"}, data_nascimento : {0},
     data_matricula : {Hoje0}, codigo_plano : {1},
     contato : [telefone : {901, 900 + NumAlunos + 1}, email : {None}]]

ContatoDeAlunoUpdates ==
    [cpf : {None}, nome : {None}, sexo : {None}, data_nascimento : {None},
     data_matricula : {None}, codigo_plano : {None},
     contato : Opt([telefone : {900 + m : m \in 1..NumAlunos}, email : {None}])]

ContatoDeInstrutorUpdates ==
    [cpf : {None}, nome : {None}, data_nascimento : {None}, data_admissao : {None},
     turno : {None}, contato : Opt([telefone : {801, 802}, email : {None}])]

NextTelefones ==
    \/ \E aluno \in MaisAlunos : POST_alunos_ate(NumAlunos + 1, aluno)
    \/ \E instrutor \in MaisInstrutores : POST_instrutores(instrutor)
    \/ \E m \in AlunoIds, aluno \in ContatoDeAlunoUpdates : PUT_alunos(m, aluno)
    \/ \E c \in 1..3, instrutor \in ContatoDeInstrutorUpdates : PUT_instrutores(c, instrutor)
    \/ DELETE_alunos(1)
    \/ DELETE_instrutores(2)

SpecTelefones == InitInstrutor /\ [][NextTelefones]_vars

\* The telefones of the rows rows, one per row that has a contact.
TelefonesDe(rows) ==
    {<<i, rows[i].telefone>> : i \in {j \in 1..Len(rows) : rows[j].telefone # None}}

\* No telefone shows in two rows of rows.
SemTelefoneRepetido(rows) ==
    \A x, y \in TelefonesDe(rows) : x[2] = y[2] => x[1] = y[1]

\* C22: a student or instructor creation whose telefone is held by a
\* contact of the same table, and a student or instructor update that asks
\* for a telefone held by a contact of another owner, is refused (400, with
\* the constraint violation of the statement when the owner exists) and
\* leaves every table as it was; and after every request no telefone shows
\* twice among the student contacts, nor among the instructor contacts.
PhoneUnique ==
    [][/\ (/\ last'.op = "criar_aluno"
           /\ last'.req.contato.telefone \in DOMAIN db.contato_aluno)
          => (last'.status = 400 /\ last'.detail = "Erro ao executar query" /\ db' = db)
       /\ (/\ last'.op = "criar_instrutor"
           /\ last'.req.contato.telefone \in DOMAIN db.contato_instrutor)
          => (last'.status = 400 /\ last'.detail = "Erro ao executar query" /\ db' = db)
       /\ (/\ last'.op = "atualizar_aluno"
           /\ last'.req.aluno.contato # None
           /\ \E t \in DOMAIN db.contato_aluno :
                  /\ t = Val(last'.req.aluno.contato).telefone
                  /\ db.contato_aluno[t].matricula # last'.req.matricula)
          => /\ last'.status = 400
             /\ db' = db
             /\ last'.req.matricula \in DOMAIN db.aluno
                => last'.detail = "Erro ao executar query"
       /\ (/\ last'.op = "atualizar_instrutor"
           /\ last'.req.instrutor.contato # None
           /\ \E t \in DOMAIN db.contato_instrutor :
                  /\ t = Val(last'.req.instrutor.contato).telefone
                  /\ db.contato_instrutor[t].cref # last'.req.cref)
          => /\ last'.status = 400
             /\ db' = db
             /\ last'.req.cref \in DOMAIN db.instrutor
                => last'.detail = "Erro ao executar query"
       /\ SemTelefoneRepetido(read_aluno(get_connection(db'), None).rows)
       /\ SemTelefoneRepetido(read_instrutor(get_connection(db'), None).rows)]_vars

\* An instructor asked for the telefone of another instructor and was
\* refused; both keep their own.
InstructorPhoneRefused ==
    /\ last.op = "atualizar_instrutor"
    /\ last.status = 400
    /\ last.req.cref = 1
    /\ last.req.instrutor.contato = Some([telefone |-> 802, email |-> None])
    /\ 802 \in DOMAIN db.contato_instrutor
    /\ db.contato_instrutor[802].cref = 2
    /\ 801 \in DOMAIN db.contato_instrutor
    /\ db.contato_instrutor[801].cref = 1

\* C23: after any requests, each student has at most one contact row and
\* each instructor has at most one contact row, and the owner of every
\* contact row exists.
OneContactPerOwner ==
    /\ \A m \in DOMAIN db.aluno :
           Cardinality({t \in DOMAIN db.contato_aluno :
                            db.contato_aluno[t].matricula = m}) <= 1
    /\ \A c \in DOMAIN db.instrutor :
           Cardinality({t \in DOMAIN db.contato_instrutor :
                            db.contato_instrutor[t].cref = c}) <= 1
    /\ \A t \in DOMAIN db.contato_aluno : db.contato_aluno[t].matricula \in DOMAIN db.aluno
    /\ \A t \in DOMAIN db.contato_instrutor :
           db.contato_instrutor[t].cref \in DOMAIN db.instrutor

\* Student 1 was deleted and its contact with it, and student 2 then took
\* the telefone student 1 had: student 2 has that one contact.
ContactMovedAfterDelete ==
    /\ 1 \notin DOMAIN db.aluno
    /\ 2 \in DOMAIN db.aluno
    /\ {t \in DOMAIN db.contato_aluno : db.contato_aluno[t].matricula = 2} = {901}
    /\ \A t \in DOMAIN db.contato_aluno : db.contato_aluno[t].matricula # 1
    /\ last.op = "atualizar_aluno"
    /\ last.status = 200

----------------------------------------------------------------------------
(* SpecConexoes: plan creations, enrolments, unenrolments and student      *)
(* updates are served one at a time and the connections they leave open    *)
(* are counted; the interpreter reclaims connections at any time.          *)

InitConexoes == StartCom(Academia(NumAlunos, 1).db, Academia(NumAlunos, 1).seq, NoRequest, 0)

NextConexoes ==
    \/ /\ abertas < MaxAbertas
       /\ \E plano \in PlanoCreates : POST_planos_ate(MaxSerial + 1, plano)
    \/ /\ abertas < MaxAbertas
       /\ \E id \in TurmaIds, m \in AlunoIds : POST_turmas_alunos(id, m)
    \/ /\ abertas < MaxAbertas
       /\ \E id \in TurmaIds, m \in AlunoIds : DELETE_turmas_alunos(id, m)
    \/ /\ abertas < MaxAbertas
       /\ \E m \in AlunoIds, aluno \in PlanoDeAlunoUpdates : PUT_alunos(m, aluno)
    \/ Finaliza

SpecConexoes == InitConexoes /\ [][NextConexoes]_vars

\* C24: when no request is being served, no connection is open: every
\* handler has closed the connection it acquired before it ended, whether
\* it succeeded or failed.
ConnectionsReleased == (Quiet /\ abertas # NaoContadas) => abertas = 0

----------------------------------------------------------------------------
(* Failures and missing rows, under SpecUpdates (one update request on the *)
(* gym where every table holds rows).                                      *)

\* C25: a request that is answered with an error status leaves the stored
\* data as it was before the request.
ErrorMeansAborted == [][last'.status >= 400 => db' = db]_vars

\* The step serves an update request whose id matches no row of its table.
UpdateOfMissing ==
    \/ last'.op = "atualizar_plano" /\ last'.req.codigo_plano \notin DOMAIN db.plano
    \/ last'.op = "atualizar_aluno" /\ last'.req.matricula \notin DOMAIN db.aluno
    \/ last'.op = "atualizar_instrutor" /\ last'.req.cref \notin DOMAIN db.instrutor
    \/ last'.op = "atualizar_turma" /\ last'.req.id_turma \notin DOMAIN db.turma
    \/ /\ last'.op = "atualizar_bioimpedancia"
       /\ last'.req.matricula \notin DOMAIN db.bioimpedancia

\* C26: an update request (plan, student, instructor, class, measurement)
\* whose id matches no row changes no table and is answered with 404.
UpdateMissingIsNotFound == [][UpdateOfMissing => (last'.status = 404 /\ db' = db)]_vars

----------------------------------------------------------------------------
(* Reads by id, under SpecBuscas (ids from 0 to one beyond the rows).      *)

\* C27: a read by id of a plan, student, measurement, instructor or class
\* that returns a record returns the record of the id asked for, for every
\* id, 0 included; otherwise it returns no record.
ReadByIdExact ==
    LET r    == last.req
        body == Val(last.body)
        Lido(op, campo) ==
            last.op = op
            => IF last.status = 200 THEN body[campo] = r[campo] ELSE last.body = None
    IN  /\ Lido("buscar_plano", "codigo_plano")
        /\ Lido("buscar_aluno", "matricula")
        /\ Lido("buscar_bioimpedancia", "matricula")
        /\ Lido("buscar_instrutor", "cref")
        /\ Lido("buscar_turma", "id_turma")

----------------------------------------------------------------------------
(* The stored function and rows that do not exist, under SpecPlanos.       *)

\* C28: a call of the stored function returns 'Plano alterado com sucesso!'
\* only if the student and the plan it names exist and the call moved the
\* student's row to that plan.
SuccessMeansChanged ==
    [][(ChangePlanStep /\ last'.detail = "Plano alterado com sucesso!")
       => LET m == last'.req.p_matricula
              p == last'.req.p_novo_plano
          IN  /\ m \in DOMAIN db.aluno
              /\ p \in DOMAIN db.plano
              /\ db'.aluno[m].codigo_plano = p
              /\ db'.aluno[m] # db.aluno[m]]_vars

----------------------------------------------------------------------------
(* The two capacity checks, under SpecTurma (enrol, unenrol and changes of *)
(* the capacity, one request at a time).                                   *)

\* C29: in every state of a serial execution and for every class, the
\* capacity test create_matricula_turma makes on its SELECT rejects exactly
\* when the trigger verificar_vagas_turma would raise on an INSERT for that
\* class; and for a class id that has no row, which the application rejects
\* before any INSERT, the INSERT would be rejected too.
CapacityChecksAgree ==
    \A id \in TurmaIds :
        LET rows == query_vagas(db, id).rows
        IN  /\ rows # <<>> => (SemVagas(rows[1]) <=> verificar_vagas_turma(db, id))
            /\ rows = <<>> => \A m \in AlunoIds : InsertMatricula(db, id, m).error

\* An enrol request was refused by the application on a class that is
\* exactly full, where the trigger would raise as well.
BothRefuseFullClass ==
    /\ last.op = "matricular_aluno_turma"
    /\ last.status = 400
    /\ last.detail = "Turma sem vagas disponiveis"
    /\ last.req.id_turma = 1
    /\ Matriculados(db, 1) = db.turma[1].quantidade_vagas
    /\ SemVagas(query_vagas(db, 1).rows[1])
    /\ verificar_vagas_turma(db, 1)

----------------------------------------------------------------------------
(* init_database, called at start-up, under SpecInit: plans are created,   *)
(* read and deleted, and the schema is initialised again with each of the  *)
(* steps of init_database failing or none.                                 *)

\* The step of init_database that fails: none, the administrative
\* connection, the pg_database query or CREATE DATABASE, the connection to
\* the application's database, or one of the two DDL scripts.
FalhasDeInit == {"nenhuma", "admin", "createdb", "conexao", "ddl"}

\* init_database.  get_admin_connection returns None on failure and the
\* function returns False before its try.  Inside the try every exception is
\* caught and False is returned, and the finally clause then evaluates
\* close_connection(conn): conn is assigned by conn = get_connection(), so a
\* failure before that assignment completes leaves the name unbound and the
\* finally clause raises UnboundLocalError in place of the return.  The DDL
\* runs in one transaction, which is committed at the end or rolled back when
\* the connection is closed.  pendentes counts the connections left open.
init_database(d, s, falha) ==
    CASE falha = "admin" ->
            [db |-> d, seq |-> s, retorno |-> Some(FALSE), excecao |-> None, pendentes |-> 0]
      [] falha = "createdb" ->
            [db |-> d, seq |-> s, retorno |-> None, excecao |-> Some("UnboundLocalError"),
             pendentes |-> 1]
      [] falha = "conexao" ->
            [db |-> d, seq |-> s, retorno |-> None, excecao |-> Some("UnboundLocalError"),
             pendentes |-> 0]
      [] falha = "ddl" ->
            [db |-> d, seq |-> s, retorno |-> Some(FALSE), excecao |-> None, pendentes |-> 0]
      [] OTHER ->
            [db |-> EmptyDatabase, seq |-> [plano |-> 0, aluno |-> 0, turma |-> 0],
             retorno |-> Some(TRUE), excecao |-> None, pendentes |-> 0]

\* What the caller of init_database sees: the text of the boolean returned or
\* the name of the exception raised.
Desfecho(r) ==
    IF r.excecao # None THEN Val(r.excecao) ELSE IF Val(r.retorno) THEN "True" ELSE "False"

CALL_init_database(falha) ==
    LET r == init_database(db, seq, falha)
    IN  /\ Quiet
        /\ db' = r.db
        /\ seq' = r.seq
        /\ last' = Record("init_database", [falha |-> falha], 0, Desfecho(r), None)
        /\ batch' = NoBatch
        /\ abertas' = Deixa(abertas, r.pendentes)
        /\ UNCHANGED <<hoje, tx>>

NextInit ==
    \/ \E plano \in NovosPlanos : POST_planos_ate(MaxSerial + 1, plano)
    \/ \E id \in Ids : GET_planos_id(id)
    \/ \E id \in Ids : DELETE_planos(id)
    \/ \E falha \in FalhasDeInit : CALL_init_database(falha)

SpecInit == InitCriar /\ [][NextInit]_vars

\* C30: init_database ends by returning a boolean whichever step fails, True
\* when the schema was created and committed and False otherwise, and raises
\* nothing.
InitDatabaseReturnsBoolean ==
    last.op = "init_database" =>
        last.detail = (IF last.req.falha = "nenhuma" THEN "True" ELSE "False")

====
